---- MODULE Spec2Model ----
(***************************************************************************)
(* Model of the Mosaic ERP importers (MamurS/InsurTech):                   *)
(*   production/import_production.py  backup, restore, rollback, run_import*)
(*   staging/import_all_sheets.py     import_sheet, process_sheet, main    *)
(*   staging/import_portfolio.py      main                                 *)
(*   staging/import_claims.py         match_parent, parse_claim_row, main  *)
(* Text values are sequences of one-character strings, so that strip(),    *)
(* lower(), split() and substring tests are computed character by          *)
(* character.  The record store is a table -> set of rows map; every store *)
(* round trip is one step and may fail.                                    *)
(***************************************************************************)
EXTENDS Integers, Sequences, FiniteSets, TLC

VARIABLES
    store,          \* table name -> set of persisted rows
    nextId,         \* next store-generated id
    manifest,       \* backups/<name>/manifest.json of the latest backup, or NoManifest
    backup_files,   \* backups/<name>/<table>.json: table -> rows written
    tool,           \* which entry point is running
    pc,             \* position inside the running entry point
    dry_run,        \* run_import / import_sheet / --dry-run / DRY_RUN flag
    batch_id,       \* run_import: str(uuid4())[:8]; rollback_batch: its argument
    all_records,    \* all_records / parsed_records / claims: the records parsed, in order
    sheets_to_process,  \* import_all_sheets.main: the sheet types still to process
    skipped_count,  \* process_sheet: rows of the current sheet the parser dropped
    all_transactions,   \* import_claims.main: <<claim_idx, txn>> pairs, in order
    claim_id_map,   \* import_claims.main: claim index -> id of the inserted claim
    transactions_to_insert, \* import_claims.main: the transactions given a claim_id
    fn_args,        \* arguments of the pure function under study
    fn_result,      \* what the function returned for fn_args
    all_entities,   \* extract_legal_entities(all_records)
    new_entities,   \* entities left after check_existing_entities
    chunk_start,    \* loop variable i / batch_start of the commit loop
    row_in_chunk,   \* position inside the row-by-row fallback of the current chunk
    table_idx,      \* loop position over the tables of rollback / restore
    count,          \* rollback_batch: count_response.count or 0
    counters,       \* the inserted / error counters of the commit loops, by name
    error_records,  \* run_import: identifiers of the records that failed
    exit_code,      \* sys.exit status or return value of the entry point
    preview,        \* side artifact written by a dry run
    confirm,        \* the operator's latest answer to a prompt
    calls,          \* store calls issued by the running entry point
    store0          \* store contents when the entry point started

\* the variables only the staging importers use
staging_vars == << sheets_to_process, skipped_count, all_transactions,
                  claim_id_map, transactions_to_insert >>

\* the variables only the studies of pure functions use
pure_vars == << fn_args, fn_result >>

vars == << store, nextId, manifest, backup_files, tool, pc, dry_run,
           batch_id, all_records, sheets_to_process, skipped_count,
           all_transactions, claim_id_map, transactions_to_insert, fn_args,
           fn_result, all_entities, new_entities, chunk_start, row_in_chunk, table_idx, count, counters, error_records,
           exit_code, preview, confirm, calls, store0 >>

----------------------------------------------------------------------------
(* Bounds of the model *)

\* rows per commit chunk; the importers use BATCH_SIZE = 50
BATCH_SIZE == 2
\* most rows in a workbook sheet
MaxRows == 3
\* most records handed to extract_legal_entities in its own study
MaxRecords == 2
\* the commands of a session, and the records of each of two runs that follow
\* one another
MaxCommands == 3
SessionRows == 1

\* the whole serial numbers 0..MaxSerial are handed to parse_date
MaxSerial == 40

----------------------------------------------------------------------------
(* Text *)

\* Python None; text values are sequences of one-character strings
None == <<"None">>

SPACE == " "

Min(a, b) == IF a < b THEN a ELSE b

\* str.lower() on the characters the model uses
LowerChar(c) ==
    CASE c = "A" -> "a" [] c = "B" -> "b" [] c = "C" -> "c" [] c = "D" -> "d"
      [] c = "E" -> "e" [] c = "F" -> "f" [] c = "G" -> "g" [] c = "H" -> "h"
      [] c = "I" -> "i" [] c = "J" -> "j" [] c = "K" -> "k" [] c = "L" -> "l"
      [] c = "M" -> "m" [] c = "N" -> "n" [] c = "O" -> "o" [] c = "P" -> "p"
      [] c = "Q" -> "q" [] c = "R" -> "r" [] c = "S" -> "s" [] c = "T" -> "t"
      [] c = "U" -> "u" [] c = "V" -> "v" [] c = "W" -> "w" [] c = "X" -> "x"
      [] c = "Y" -> "y" [] c = "Z" -> "z"
      [] OTHER -> c

lower(s) == [k \in 1..Len(s) |-> LowerChar(s[k])]

\* str.upper() on the characters the model uses
UpperChar(c) ==
    CASE c = "u" -> "U" [] c = "z" -> "Z" [] c = "s" -> "S" [] c = "d" -> "D"
      [] c = "k" -> "K" [] c = "e" -> "E" [] c = "x" -> "X" [] c = "l" -> "L"
      [] c = "n" -> "N" [] c = "o" -> "O" [] c = "c" -> "C" [] c = "q" -> "Q"
      [] OTHER -> c

upper(s) == [k \in 1..Len(s) |-> UpperChar(s[k])]

RECURSIVE lstrip(_)
lstrip(s) == IF s # <<>> /\ Head(s) = SPACE THEN lstrip(Tail(s)) ELSE s

RECURSIVE rstrip(_)
rstrip(s) ==
    IF s # <<>> /\ s[Len(s)] = SPACE THEN rstrip(SubSeq(s, 1, Len(s) - 1)) ELSE s

\* str.strip()
strip(s) == rstrip(lstrip(s))

\* kw in s
Contains(s, kw) ==
    \E k \in 0..(Len(s) - Len(kw)) : SubSeq(s, k + 1, k + Len(kw)) = kw

\* s.split(): the maximal runs of non-space characters of s, in order
RECURSIVE split(_, _, _)
split(s, cur, acc) ==
    IF s = <<>> THEN (IF cur = <<>> THEN acc ELSE Append(acc, cur))
    ELSE IF Head(s) = SPACE
         THEN split(Tail(s), <<>>, IF cur = <<>> THEN acc ELSE Append(acc, cur))
         ELSE split(Tail(s), Append(cur, Head(s)), acc)

\* sep.join(words)
RECURSIVE join(_, _)
join(sep, words) ==
    IF words = <<>> THEN <<>>
    ELSE IF Len(words) = 1 THEN words[1]
    ELSE words[1] \o sep \o join(sep, Tail(words))

\* a numeric cell (int or float) is "#" followed by the text str() gives it;
\* every other cell is a text or None
IsNumber(v) == v # <<>> /\ v[1] = "#"

\* the float 0.0, and the numeric cells equal to it
ZeroCell == <<"#", "0", ".", "0">>
ZeroCells == { ZeroCell, <<"#", "0">>, <<"#", "-", "0", ".", "0">> }

\* str(value)
str(v) == IF IsNumber(v) THEN Tail(v) ELSE v

\* Python truthiness of a cell or of an optional text value: None, "" and
\* the number zero are false
Truthy(v) == v # None /\ v # <<>> /\ v \notin ZeroCells

\* import_production.normalize_name
normalize_name(name) ==
    IF ~Truthy(name) THEN <<>>
    ELSE strip(join(<<SPACE>>, split(name, <<>>, <<>>)))

----------------------------------------------------------------------------
(* Vocabulary of the workbooks the model reads *)

W_Acme == <<"A", "c", "m", "e">>
W_Insurance == <<"I", "n", "s", "u", "r", "a", "n", "c", "e">>
W_Marsh == <<"M", "a", "r", "s", "h">>
W_Broker == <<"B", "r", "o", "k", "e", "r">>
W_Swiss == <<"S", "w", "i", "s", "s">>
W_Reinsurer == <<"R", "e", "i", "n", "s", "u", "r", "e", "r">>
W_Zed == <<"Z", "e", "d">>
W_Unknown == <<"U", "n", "k", "n", "o", "w", "n">>
W_Cedant == <<"C", "e", "d", "a", "n", "t">>
SP == <<SPACE>>

N_AcmeInsurance == W_Acme \o SP \o W_Insurance
N_AcmeInsurance2 == W_Acme \o SP \o SP \o SP \o W_Insurance
N_AcmeInsuranceP == SP \o W_Acme \o SP \o W_Insurance \o SP
N_MarshBroker == W_Marsh \o SP \o W_Broker
N_SwissReinsurer == W_Swiss \o SP \o W_Reinsurer
N_Zed == W_Zed
N_UnknownCedant == W_Unknown \o SP \o W_Cedant
N_Blank == SP \o SP

T_Uzbekistan == <<"U", "z", "b", "e", "k", "i", "s", "t", "a", "n">>
T_UK == <<"U", "K">>
K_C1 == <<"C", "-", "1">>
K_C2 == <<"c", "-", "2">>
S_2024 == <<"2", "0", "2", "4">>
S_Summary == <<"S", "u", "m", "m", "a", "r", "y">>

Digit(n) == <<"0", "1", "2", "3", "4", "5", "6", "7", "8", "9">>[n + 1]

----------------------------------------------------------------------------
(* Numbers and dates *)

IsDigit(c) == \E n \in 0..9 : Digit(n) = c

DigitValue(c) == CHOOSE n \in 0..9 : Digit(n) = c

AllDigits(s) == s # <<>> /\ \A k \in 1..Len(s) : IsDigit(s[k])

\* the number a text of decimal digits denotes
RECURSIVE NatOfDigits(_)
NatOfDigits(s) ==
    IF s = <<>> THEN 0
    ELSE 10 * NatOfDigits(SubSeq(s, 1, Len(s) - 1)) + DigitValue(s[Len(s)])

\* the decimal digits of a natural number
RECURSIVE DigitsOfNat(_)
DigitsOfNat(n) ==
    IF n < 10 THEN <<Digit(n)>> ELSE DigitsOfNat(n \div 10) \o <<Digit(n % 10)>>

\* the position of the first c in s, 0 when there is none
IndexOf(s, c) ==
    IF \E k \in 1..Len(s) : s[k] = c
    THEN CHOOSE k \in 1..Len(s) : s[k] = c /\ \A j \in 1..(k - 1) : s[j] # c
    ELSE 0

\* the float cells inf and nan
InfCell == <<"#", "i", "n", "f">>
NegInfCell == <<"#", "-", "i", "n", "f">>
NaNCell == <<"#", "n", "a", "n">>

\* math.isinf(value) or math.isnan(value)
IsInfOrNaN(value) == value \in {InfCell, NegInfCell, NaNCell}

\* int(value) of a finite numeric cell: truncation towards zero
int(value) ==
    LET t == str(value)
        neg == t[1] = "-"
        body == IF neg THEN Tail(t) ELSE t
        dot == IndexOf(body, ".")
        whole == IF dot = 0 THEN body ELSE SubSeq(body, 1, dot - 1)
    IN  IF neg THEN 0 - NatOfDigits(whole) ELSE NatOfDigits(whole)

\* calendar of datetime: proleptic Gregorian, ordinal 1 is 0001-01-01
IsLeap(year) == year % 4 = 0 /\ (year % 100 # 0 \/ year % 400 = 0)

DaysInMonth(year, month) ==
    IF month = 2 THEN (IF IsLeap(year) THEN 29 ELSE 28)
    ELSE IF month \in {4, 6, 9, 11} THEN 30 ELSE 31

RECURSIVE DaysBeforeMonth(_, _)
DaysBeforeMonth(year, month) ==
    IF month = 1 THEN 0
    ELSE DaysBeforeMonth(year, month - 1) + DaysInMonth(year, month - 1)

\* days before January 1st of the year
DaysBeforeYear(year) ==
    LET y == year - 1 IN y * 365 + y \div 4 - y \div 100 + y \div 400

\* datetime(year, month, day).toordinal()
toordinal(date) == DaysBeforeYear(date[1]) + DaysBeforeMonth(date[1], date[2]) + date[3]

\* datetime.fromordinal(n), by the 400/100/4/1-year cycles
fromordinal(n) ==
    LET n0 == n - 1
        n400 == n0 \div 146097
        r400 == n0 % 146097
        n100 == r400 \div 36524
        r100 == r400 % 36524
        n4 == r100 \div 1461
        r4 == r100 % 1461
        n1 == r4 \div 365
        r1 == r4 % 365
        year == n400 * 400 + n100 * 100 + n4 * 4 + n1 + 1
    IN  IF n1 = 4 \/ n100 = 4 THEN <<year - 1, 12, 31>>
        ELSE LET month == CHOOSE m \in 1..12 :
                     /\ DaysBeforeMonth(year, m) <= r1
                     /\ r1 < DaysBeforeMonth(year, m) + DaysInMonth(year, m)
             IN  <<year, month, r1 - DaysBeforeMonth(year, month) + 1>>

\* the ordinals of datetime.min and datetime.max
MinOrdinal == toordinal(<<1, 1, 1>>)
MaxOrdinal == toordinal(<<9999, 12, 31>>)

\* two decimal digits, zero padded
Pad2(n) == IF n < 10 THEN <<"0">> \o DigitsOfNat(n) ELSE DigitsOfNat(n)

\* date.strftime("%Y-%m-%d")
strftime(date) == DigitsOfNat(date[1]) \o <<"-">> \o Pad2(date[2]) \o <<"-">> \o Pad2(date[3])

\* excel_epoch = datetime(1899, 12, 30)
excel_epoch == <<1899, 12, 30>>

\* a serial branch that counts from 1900-01-01
serial_date_from_1900(value) ==
    IF IsInfOrNaN(value) THEN None
    ELSE LET ordinal == toordinal(<<1900, 1, 1>>) + int(value)
         IN  IF ordinal < MinOrdinal \/ ordinal > MaxOrdinal THEN None
             ELSE strftime(fromordinal(ordinal))

\* the isinstance(value, (int, float)) branch of parse_date:
\* excel_epoch + timedelta(days=int(value)); int() of inf or nan raises, and
\* so does a sum outside datetime.min..datetime.max, and both give None
serial_date(value) ==
    IF IsInfOrNaN(value) THEN None
    ELSE LET ordinal == toordinal(excel_epoch) + int(value)
         IN  IF ordinal < MinOrdinal \/ ordinal > MaxOrdinal THEN None
             ELSE strftime(fromordinal(ordinal))

\* s.split(sep) for a one-character separator
RECURSIVE SplitOn(_, _)
SplitOn(s, sep) ==
    LET k == IndexOf(s, sep)
    IN  IF k = 0 THEN <<s>>
        ELSE <<SubSeq(s, 1, k - 1)>> \o SplitOn(SubSeq(s, k + 1, Len(s)), sep)

\* the formats parse_date tries, in order: the separator and the positions
\* of the year, month and day fields
formats ==
    << [sep |-> ".", Y |-> 3, m |-> 2, d |-> 1],
       [sep |-> "-", Y |-> 1, m |-> 2, d |-> 3],
       [sep |-> "/", Y |-> 3, m |-> 1, d |-> 2],
       [sep |-> "/", Y |-> 3, m |-> 2, d |-> 1],
       [sep |-> "/", Y |-> 1, m |-> 2, d |-> 3] >>

\* datetime.strptime(value, fmt): <<date>>, or <<>> for ValueError; %Y takes
\* four digits, %m and %d one or two, and the day must exist in the month
strptime(value, fmt) ==
    LET parts == SplitOn(value, fmt.sep)
    IN  IF Len(parts) # 3 \/ \E k \in 1..3 : ~AllDigits(parts[k]) THEN <<>>
        ELSE LET year == NatOfDigits(parts[fmt.Y])
                 month == NatOfDigits(parts[fmt.m])
                 day == NatOfDigits(parts[fmt.d])
             IN  IF /\ Len(parts[fmt.Y]) = 4
                    /\ Len(parts[fmt.m]) <= 2
                    /\ Len(parts[fmt.d]) <= 2
                    /\ year >= 1
                    /\ month \in 1..12
                    /\ day >= 1
                    /\ day <= DaysInMonth(year, month)
                 THEN << <<year, month, day>> >>
                 ELSE <<>>

\* the date of the first format that parsed, None when none did
first_parsed(dates) ==
    LET hits == { k \in DOMAIN dates : dates[k] # <<>> }
    IN  IF hits = {} THEN None
        ELSE strftime(dates[CHOOSE k \in hits : \A j \in hits : k <= j][1])

\* the isinstance(value, str) branch of parse_date: the formats are tried in
\* order on the stripped text
text_date(value) == first_parsed([k \in DOMAIN formats |-> strptime(strip(value), formats[k])])

\* parse_date of import_production.py, import_all_sheets.py and
\* import_portfolio.py (the three are the same function)
parse_date(value) ==
    IF value = None THEN None
    ELSE IF IsNumber(value) THEN serial_date(value)
    ELSE text_date(value)

\* parse_date of import_claims.py: "" and the number 0 are None as well
parse_date_claims(value) ==
    IF value = None \/ value = <<>> THEN None
    ELSE IF IsNumber(value)
         THEN (IF value \in ZeroCells THEN None ELSE serial_date(value))
    ELSE text_date(value)

\* the characters U+20AC and U+00A0
EURO == "EUR"
NBSP == "NBSP"

\* s.replace(c, "") for every character c of a set
RECURSIVE Remove(_, _)
Remove(s, cs) ==
    IF s = <<>> THEN <<>>
    ELSE (IF s[1] \in cs THEN <<>> ELSE <<s[1]>>) \o Remove(Tail(s), cs)

\* text without its leading (trailing) zeros
RECURSIVE DropLeadingZeros(_)
DropLeadingZeros(s) ==
    IF s # <<>> /\ s[1] = "0" THEN DropLeadingZeros(Tail(s)) ELSE s

RECURSIVE DropTrailingZeros(_)
DropTrailingZeros(s) ==
    IF s # <<>> /\ s[Len(s)] = "0"
    THEN DropTrailingZeros(SubSeq(s, 1, Len(s) - 1)) ELSE s

Zeros(n) == [k \in 1..n |-> "0"]

\* the float cell with the given sign, digits and number of digits before
\* the decimal point (which may be negative or beyond the digits)
FloatCell(neg, digits, point) ==
    LET whole == IF point <= 0 THEN <<>>
                 ELSE IF point >= Len(digits) THEN digits \o Zeros(point - Len(digits))
                 ELSE SubSeq(digits, 1, point)
        frac == IF point <= 0 THEN Zeros(0 - point) \o digits
                ELSE IF point >= Len(digits) THEN <<>>
                ELSE SubSeq(digits, point + 1, Len(digits))
        w == DropLeadingZeros(whole)
        f == DropTrailingZeros(frac)
    IN  <<"#">> \o (IF neg /\ (w # <<>> \/ f # <<>>) THEN <<"-">> ELSE <<>>)
            \o (IF w = <<>> THEN <<"0">> ELSE w)
            \o <<".">>
            \o (IF f = <<>> THEN <<"0">> ELSE f)

\* float(text): <<cell>>, or <<>> for ValueError.  The grammar is
\* [sign] (inf | infinity | nan | digits [. digits] [e [sign] digits]), in
\* any case; a number of 1e309 or more is inf
float_of_text(text) ==
    LET signed == text # <<>> /\ text[1] \in {"+", "-"}
        neg == signed /\ text[1] = "-"
        body == lower(IF signed THEN Tail(text) ELSE text)
        e == IndexOf(body, "e")
        mantissa == IF e = 0 THEN body ELSE SubSeq(body, 1, e - 1)
        exponent == IF e = 0 THEN <<"0">> ELSE SubSeq(body, e + 1, Len(body))
        esigned == exponent # <<>> /\ exponent[1] \in {"+", "-"}
        edigits == IF esigned THEN Tail(exponent) ELSE exponent
        dot == IndexOf(mantissa, ".")
        whole == IF dot = 0 THEN mantissa ELSE SubSeq(mantissa, 1, dot - 1)
        frac == IF dot = 0 THEN <<>> ELSE SubSeq(mantissa, dot + 1, Len(mantissa))
    IN  IF body \in {<<"i", "n", "f">>, <<"i", "n", "f", "i", "n", "i", "t", "y">>}
        THEN << IF neg THEN NegInfCell ELSE InfCell >>
        ELSE IF body = <<"n", "a", "n">> THEN <<NaNCell>>
        ELSE IF \/ whole \o frac = <<>>
                \/ ~AllDigits(whole \o frac)
                \/ ~AllDigits(edigits)
        THEN <<>>
        ELSE LET exp == IF esigned /\ exponent[1] = "-"
                        THEN 0 - NatOfDigits(edigits) ELSE NatOfDigits(edigits)
                 significant == DropLeadingZeros(whole \o frac)
                 magnitude == Len(significant) - Len(frac) + exp
             IN  IF significant # <<>> /\ magnitude > 309
                 THEN << IF neg THEN NegInfCell ELSE InfCell >>
                 ELSE << FloatCell(neg, whole \o frac, Len(whole) + exp) >>

\* float(value) of a numeric cell: an int becomes the float of the same value
float_of_number(value) ==
    IF IsInfOrNaN(value) \/ IndexOf(value, ".") # 0 THEN value
    ELSE value \o <<".", "0">>

\* the separators and glyphs parse_number removes from a text
GLYPHS == {",", " ", NBSP, "$", EURO, "%"}

\* the isinstance(value, str) branch of parse_number up to float(cleaned)
cleaned_number(value) ==
    LET cleaned == Remove(strip(value), GLYPHS)
    IN  IF cleaned = <<>> \/ cleaned = <<"-">> THEN <<>> ELSE float_of_text(cleaned)

\* result = float(cleaned) and its math.isinf/math.isnan check; None for
\* the ValueError of float
finite_or_None(result) ==
    IF result = <<>> \/ IsInfOrNaN(result[1]) THEN None ELSE result[1]

\* return float(cleaned); None for the ValueError of float
parsed_or_None(result) == IF result = <<>> THEN None ELSE result[1]

\* parse_number of import_all_sheets.py: an infinite or NaN cell, and a text
\* that parses to one, give None
parse_number_all_sheets(value) ==
    IF value = None THEN None
    ELSE IF IsNumber(value)
         THEN (IF IsInfOrNaN(value) THEN None ELSE float_of_number(value))
    ELSE finite_or_None(cleaned_number(value))

\* parse_number of import_production.py and import_portfolio.py (the two are
\* the same function): float(value) and float(cleaned) are returned as they are
parse_number(value) ==
    IF value = None THEN None
    ELSE IF IsNumber(value) THEN float_of_number(value)
    ELSE parsed_or_None(cleaned_number(value))

\* parse_number of import_claims.py: as parse_number, and "" is None at once
parse_number_claims(value) ==
    IF value = None \/ value = <<>> THEN None
    ELSE parse_number(value)

----------------------------------------------------------------------------
(* Row normalizer and entity extraction of import_production.py *)

\* a raw row maps column indexes to cell values; a missing column reads None
get_cell_value(row, col_idx) == IF col_idx \in DOMAIN row THEN row[col_idx] ELSE None

\* str(value).strip() if value else None
text_cell(value) == IF Truthy(value) THEN strip(str(value)) ELSE None

\* record.get(field): None when the key is absent
Get(record, field) == IF field \in DOMAIN record THEN record[field] ELSE None

determine_origin(territory, currency) ==
    IF Truthy(territory)
       /\ (Contains(lower(territory), <<"u", "z", "b", "e", "k">>)
           \/ lower(territory) = <<"u", "z">>)
    THEN "DOMESTIC"
    ELSE IF Truthy(currency) /\ upper(currency) = <<"U", "Z", "S">>
    THEN "DOMESTIC"
    ELSE "FOREIGN"

\* "Excel:{sheet_name}:Row{row_number}"
import_source(sheet_name, row_number) ==
    <<"E", "x", "c", "e", "l", ":">> \o sheet_name
        \o <<":", "R", "o", "w", Digit(row_number)>>

\* Optional[Dict]: a function that returns a record or None yields <<record>>
\* or NoRecord
NoRecord == <<>>

\* parse_structure: None is PROPORTIONAL, else the substring heuristic over
\* str(value).strip().upper()
parse_structure(value) ==
    IF value = None THEN "PROPORTIONAL"
    ELSE LET val_str == upper(strip(str(value)))
         IN  IF Contains(val_str, <<"X", "L">>)
                \/ Contains(val_str, <<"E", "X", "C", "E", "S", "S">>)
                \/ Contains(val_str, <<"N", "O", "N">>)
             THEN "NON_PROPORTIONAL"
             ELSE "PROPORTIONAL"

\* datetime.now(): the day of the run
now == <<2026, 1, 15>>
\* datetime.now().strftime("%Y-%m-%d")
today == strftime(now)
\* (datetime.now() + timedelta(days=365)).strftime("%Y-%m-%d")
next_year == strftime(fromordinal(toordinal(now) + 365))

\* parse_number of the importer the row parser belongs to
parse_number_of(importer, value) ==
    IF importer = "all_sheets" THEN parse_number_all_sheets(value)
    ELSE parse_number(value)

\* if not record.get(field): record[field] = default
if_not(value, default) == IF ~Truthy(value) THEN default ELSE value

\* a row parser whose numeric fallbacks are missing
if_none_kept(value, default) == value

\* if record.get(field) is None: record[field] = default
if_none(value, default) == IF value = None THEN default ELSE value

\* the columns of the fields an inward row must have, by field: two of
\* TEXT_COLUMNS, DATE_COLUMNS and three of NUMERIC_COLUMNS
COVER_COLUMNS == [ type_of_cover |-> 11, class_of_cover |-> 12 ]
DATE_COLUMNS == [ inception_date |-> 25, expiry_date |-> 26 ]
NUMERIC_COLUMNS == [ limit_of_liability |-> 32, our_share |-> 39, gross_premium |-> 41 ]

\* what the required-field fallbacks put in a missing field
fallbacks ==
    [ type_of_cover |-> <<"P", "r", "o", "p", "e", "r", "t", "y">>,
      class_of_cover |-> <<"A", "l", "l", " ", "R", "i", "s", "k", "s">>,
      inception_date |-> today,
      expiry_date |-> next_year,
      limit_of_liability |-> <<"#", "0">>,
      gross_premium |-> <<"#", "0">>,
      our_share |-> <<"#", "1", "0", "0">> ]

\* NOTES_COLUMNS, the same list in the three inward parsers
NOTES_COLUMNS == <<2, 3, 6, 8, 9, 10, 13, 17, 18, 20, 21>>

\* record['notes']: str(value).strip() of every notes cell that is truthy,
\* joined by " | "; None when no cell is
notes_of(row) ==
    LET values == [ k \in DOMAIN NOTES_COLUMNS |-> get_cell_value(row, NOTES_COLUMNS[k]) ]
        notes_parts == [ k \in DOMAIN SelectSeq(values, Truthy) |->
                           strip(str(SelectSeq(values, Truthy)[k])) ]
    IN  IF notes_parts = <<>> THEN None
        ELSE join(<<" ", "|", " ">>, notes_parts)

\* the cover, date, number and structure columns of an inward row with their
\* required-field fallbacks
required_fields(row, importer) ==
    [ f \in DOMAIN COVER_COLUMNS |->
        if_not(text_cell(get_cell_value(row, COVER_COLUMNS[f])), fallbacks[f]) ]
    @@ [ f \in DOMAIN DATE_COLUMNS |->
           if_not(parse_date(get_cell_value(row, DATE_COLUMNS[f])), fallbacks[f]) ]
    @@ [ f \in DOMAIN NUMERIC_COLUMNS |->
           if_none(parse_number_of(importer, get_cell_value(row, NUMERIC_COLUMNS[f])),
                   fallbacks[f]) ]
    @@ [ structure |-> parse_structure(get_cell_value(row, 31)) ]

\* a parse_row that does not set import_batch_id
parse_row_untagged(row, row_number, sheet_name, batch) ==
    LET original_insured_name == text_cell(get_cell_value(row, 1))
        cedant_name == text_cell(get_cell_value(row, 5))
        contract_number == text_cell(get_cell_value(row, 7))
    IN  IF ~Truthy(cedant_name) /\ ~Truthy(contract_number)
           /\ ~Truthy(original_insured_name)
        THEN NoRecord
        ELSE << [ original_insured_name |-> original_insured_name,
                  broker_name |-> text_cell(get_cell_value(row, 4)),
                  cedant_name |-> IF ~Truthy(cedant_name) THEN N_UnknownCedant
                                  ELSE cedant_name,
                  contract_number |->
                      IF ~Truthy(contract_number)
                      THEN <<"I", "M", "P", "O", "R", "T", "-">> \o sheet_name
                               \o <<"-", Digit(row_number)>>
                      ELSE contract_number,
                  territory |-> text_cell(get_cell_value(row, 16)),
                  import_source |-> import_source(sheet_name, row_number) ] >>

\* the text columns, sparse-row filter, derived fields and required-field
\* fallbacks of parse_row
parse_row(row, row_number, sheet_name, batch) ==
    LET original_insured_name == text_cell(get_cell_value(row, 1))
        broker_name == text_cell(get_cell_value(row, 4))
        cedant_name == text_cell(get_cell_value(row, 5))
        contract_number == text_cell(get_cell_value(row, 7))
        territory == text_cell(get_cell_value(row, 16))
        currency == text_cell(get_cell_value(row, 19))
    IN  IF ~Truthy(cedant_name) /\ ~Truthy(contract_number)
           /\ ~Truthy(original_insured_name)
        THEN NoRecord
        ELSE << [ original_insured_name |-> original_insured_name,
               broker_name |-> broker_name,
               cedant_name |-> IF ~Truthy(cedant_name) THEN N_UnknownCedant
                               ELSE cedant_name,
               contract_number |->
                   IF ~Truthy(contract_number)
                   THEN <<"I", "M", "P", "O", "R", "T", "-">> \o sheet_name
                            \o <<"-", Digit(row_number)>>
                   ELSE contract_number,
               territory |-> territory,
               currency |-> IF ~Truthy(currency) THEN <<"U", "S", "D">> ELSE currency,
               origin |-> determine_origin(territory, currency),
               type |-> "FAC",
               status |-> "ACTIVE",
               cedant_country |-> territory,
               import_batch_id |-> batch,
               import_source |-> import_source(sheet_name, row_number) ]
               @@ required_fields(row, "production")
               @@ [ notes |-> notes_of(row) ] >>

\* keyword rules of determine_entity_type (the Cyrillic keywords need
\* characters outside the model's alphabet and never match it)
determine_entity_type(name, is_cedant, is_broker) ==
    LET name_lower == lower(name)
    IN  IF is_broker \/ Contains(name_lower, <<"b", "r", "o", "k", "e", "r">>)
        THEN "Broker"
        ELSE IF Contains(name_lower, <<"i", "n", "s", "u", "r", "a", "n", "c", "e">>)
                \/ Contains(name_lower, <<"i", "n", "s", "u", "r", "a", "n", "c">>)
        THEN "Insurance Company"
        ELSE IF Contains(name_lower, <<"r", "e", "i", "n", "s", "u", "r">>)
        THEN "Reinsurer"
        ELSE IF is_cedant THEN "Insurance Company"
        ELSE "Other"

\* name.strip()[:50] if len(name) > 50 else None
shortName(name) == IF Len(name) > 50 THEN SubSeq(strip(name), 1, 50) ELSE None

\* the entities dict: an insertion-ordered list of <<key, value>> pairs
HasKey(entities, key) == \E k \in 1..Len(entities) : entities[k][1] = key

\* an entities dict in which a later reference replaces the entry of its key
AddEntity_last_wins(entities, name, entity) ==
    LET normalized == normalize_name(name)
    IN  IF normalized = <<>> THEN entities
        ELSE IF HasKey(entities, normalized)
        THEN [k \in 1..Len(entities) |->
                 IF entities[k][1] = normalized THEN <<normalized, entity>>
                 ELSE entities[k]]
        ELSE Append(entities, <<normalized, entity>>)

\* if normalized and normalized not in entities: entities[normalized] = entity
AddEntity(entities, name, entity) ==
    LET normalized == normalize_name(name)
    IN  IF normalized # <<>> /\ ~HasKey(entities, normalized)
        THEN Append(entities, <<normalized, entity>>)
        ELSE entities

\* one iteration of the loop of extract_legal_entities: cedant, broker, insured
extract_record(entities, record) ==
    LET cedant_name == Get(record, "cedant_name")
        broker_name == Get(record, "broker_name")
        insured_name == Get(record, "original_insured_name")
        e1 == IF Truthy(cedant_name) /\ cedant_name # N_UnknownCedant
              THEN AddEntity(entities, cedant_name,
                     [ fullName |-> strip(cedant_name),
                       shortName |-> shortName(cedant_name),
                       type |-> determine_entity_type(cedant_name, TRUE, FALSE),
                       country |-> IF Truthy(Get(record, "cedant_country"))
                                   THEN Get(record, "cedant_country")
                                   ELSE Get(record, "territory"),
                       import_batch_id |-> Get(record, "import_batch_id") ])
              ELSE entities
        e2 == IF Truthy(broker_name)
              THEN AddEntity(e1, broker_name,
                     [ fullName |-> strip(broker_name),
                       shortName |-> shortName(broker_name),
                       type |-> determine_entity_type(broker_name, FALSE, TRUE),
                       country |-> None,
                       import_batch_id |-> Get(record, "import_batch_id") ])
              ELSE e1
    IN  IF Truthy(insured_name)
        THEN AddEntity(e2, insured_name,
               [ fullName |-> strip(insured_name),
                 shortName |-> shortName(insured_name),
                 type |-> "Insured",
                 country |-> Get(record, "territory"),
                 import_batch_id |-> Get(record, "import_batch_id") ])
        ELSE e2

RECURSIVE extract_entities_dict(_, _)
extract_entities_dict(records, entities) ==
    IF records = <<>> THEN entities
    ELSE extract_entities_dict(Tail(records), extract_record(entities, Head(records)))

\* list(entities.values())
extract_legal_entities(records) ==
    LET d == extract_entities_dict(records, <<>>)
    IN  [k \in 1..Len(d) |-> d[k][2]]

\* a store read: the rows selected, or a raised exception
Response(rows) == [ok |-> TRUE, data |-> rows]
ReadFailed == [ok |-> FALSE, data |-> {}]

\* the names check_existing_entities builds from the rows it read
existing_names_of(rows) ==
    { normalize_name(r.data.fullName) :
        r \in { q \in rows : Truthy(Get(q.data, "fullName")) } }

\* [e for e in entities if normalize_name(e["fullName"]) not in existing_names]
RECURSIVE filter_new(_, _)
filter_new(entities, existing_names) ==
    IF entities = <<>> THEN <<>>
    ELSE IF normalize_name(Head(entities).fullName) \notin existing_names
         THEN <<Head(entities)>> \o filter_new(Tail(entities), existing_names)
         ELSE filter_new(Tail(entities), existing_names)

\* check_existing_entities, given the outcome of its select
check_existing_entities(entities, response) ==
    IF entities = <<>> THEN <<>>
    ELSE IF ~response.ok THEN entities
    ELSE filter_new(entities, existing_names_of(response.data))

----------------------------------------------------------------------------
(* The record store *)

Tables == { "inward_reinsurance", "legal_entities", "policies", "claims",
            "slips", "claim_transactions" }

\* a persisted row: the store-generated id and the columns that were inserted
Row(id, data) == [id |-> id, data |-> data]

\* the import_batch_id column of a row; null when the row was inserted without it
RowBatch(r) == Get(r.data, "import_batch_id")

\* insert(records): every record stored under a fresh id, first_id onwards
insert_rows(st, table, records, first_id) ==
    [st EXCEPT ![table] =
        @ \cup { Row(first_id + k - 1, records[k]) : k \in 1..Len(records) }]

\* insert(rows) of rows that carry their id (restore)
insert_with_ids(st, table, rows) == [st EXCEPT ![table] = @ \cup rows]

\* a delete that lost its eq("import_batch_id", batch) filter
delete_unfiltered(st, table, batch) == [st EXCEPT ![table] = {}]

\* delete().eq("import_batch_id", batch)
delete_eq_batch(st, table, batch) ==
    [st EXCEPT ![table] = { r \in @ : RowBatch(r) # batch }]

\* delete().neq("id", "00000000-0000-0000-0000-000000000000")
delete_all(st, table) == [st EXCEPT ![table] = {}]

\* select("id", count="exact").eq("import_batch_id", batch)
count_eq_batch(st, table, batch) ==
    Cardinality({ r \in st[table] : RowBatch(r) = batch })

\* batch[i:i + BATCH_SIZE] for the 0-based start i
Chunk(seq, i) == SubSeq(seq, i + 1, Min(i + BATCH_SIZE, Len(seq)))

\* rejected counts the single-record inserts the store refused
NoCalls == [insert |-> 0, delete |-> 0, select |-> 0, rejected |-> 0]
Called(op) == [calls EXCEPT ![op] = @ + 1]

----------------------------------------------------------------------------
(* What the operator can type at a prompt *)

A_yes == <<"y", "e", "s">>
A_YES == <<"Y", "E", "S">>
A_no == <<"n", "o">>
Answers == { A_yes, A_YES, A_no }
NotAsked == <<"-">>

\* confirm.lower() != "yes" is false
Affirmative(answer) == lower(answer) = A_yes

----------------------------------------------------------------------------
(* Initial store contents and workbooks *)

\* batch ids: two earlier runs whose rows are in the store, and the id that
\* str(uuid4())[:8] gives the run of the model (never one generated before)
OldBatch == <<"b", "0">>
OtherBatch == <<"b", "1">>
NewBatch == <<"b", "2">>

E_Acme == [ fullName |-> N_AcmeInsurance, shortName |-> None,
            type |-> "Insurance Company", country |-> None ]
E_Marsh == [ fullName |-> N_MarshBroker, shortName |-> None, type |-> "Broker",
             country |-> None, import_batch_id |-> OldBatch ]
R_Old == [ contract_number |-> K_C1, cedant_name |-> N_AcmeInsurance,
           broker_name |-> N_MarshBroker, original_insured_name |-> None,
           import_batch_id |-> OldBatch ]
R_Other == [ contract_number |-> K_C1, cedant_name |-> N_SwissReinsurer,
             broker_name |-> None, original_insured_name |-> None,
             import_batch_id |-> OtherBatch ]
R_Untagged == [ contract_number |-> K_C2, cedant_name |-> N_AcmeInsurance,
                broker_name |-> None, original_insured_name |-> N_Zed ]

SeedEntities == { Row(1, E_Acme), Row(2, E_Marsh) }
SeedInward == { Row(3, R_Old), Row(4, R_Untagged), Row(8, R_Other) }
SeedPolicies == { Row(5, [policyNumber |-> K_C1, slipNumber |-> K_C2]) }
SeedClaims == { Row(6, [claim_number |-> K_C1]) }
SeedSlips == { Row(7, [slipNumber |-> K_C2]) }
\* the seed rows have the ids 1..Cardinality(SeedRows); the store generates
\* the ids after them
SeedRows == SeedEntities \cup SeedInward \cup SeedPolicies \cup SeedClaims \cup SeedSlips
FirstId == 1 + Cardinality(SeedRows)

StoreOf(inw, ent) ==
    [t \in Tables |->
        CASE t = "inward_reinsurance" -> inw
          [] t = "legal_entities" -> ent
          [] t = "policies" -> SeedPolicies
          [] t = "claims" -> SeedClaims
          [] t = "slips" -> SeedSlips
          [] OTHER -> {}]

\* the store and the backup on disk when the model starts: the backup is
\* absent, or a complete or partial snapshot of the seed data
InitStates ==
    { <<StoreOf({}, {}), "absent">>,
      <<StoreOf({}, {Row(1, E_Acme)}), "partial">>,
      <<StoreOf(SeedInward, SeedEntities), "complete">> }

\* raw rows: column index -> cell (1 insured, 4 broker, 5 cedant, 7 contract,
\* 16 territory, 19 currency)
RawRows ==
    { (1 :> N_Zed @@ 5 :> N_AcmeInsurance @@ 7 :> K_C1 @@ 16 :> T_UK),
      (4 :> N_MarshBroker @@ 5 :> N_AcmeInsurance2 @@ 16 :> T_Uzbekistan),
      (1 :> N_Blank @@ 4 :> N_MarshBroker @@ 19 :> <<"U", "S", "D">>) }

RowSeqs == UNION { [1..n -> RawRows] : n \in 0..MaxRows }

Sheet(name, rows, readable) == [name |-> name, rows |-> rows, readable |-> readable]

\* a workbook is the list of its sheets
Workbooks ==
    { <<Sheet(S_2024, rows, TRUE)>> : rows \in RowSeqs }
    \cup { <<Sheet(S_Summary, <<rw>>, TRUE), Sheet(S_2024, <<rw>>, TRUE)>> :
             rw \in RawRows }
    \cup { <<Sheet(S_2024, <<>>, FALSE)>> }

----------------------------------------------------------------------------
(* Backups *)

BackupTables == <<"inward_reinsurance", "legal_entities", "policies", "claims", "slips">>
RollbackTables == <<"inward_reinsurance", "legal_entities">>

Range(seq) == { seq[k] : k \in 1..Len(seq) }

NoManifest == [tables |-> <<>>]
NoFile == [exists |-> FALSE, rows |-> {}]

\* a manifest that ends with the entry of the first table whose read raises
manifest_of_until_failure(st, failed) ==
    LET n == IF \E k \in 1..Len(BackupTables) : BackupTables[k] \in failed
             THEN CHOOSE k \in 1..Len(BackupTables) :
                     /\ BackupTables[k] \in failed
                     /\ \A j \in 1..(k - 1) : BackupTables[j] \notin failed
             ELSE Len(BackupTables)
    IN  [ tables |-> [ k \in 1..n |->
              IF BackupTables[k] \in failed
              THEN [count |-> 0, error |-> "error"]
              ELSE [count |-> Cardinality(st[BackupTables[k]]), file |-> BackupTables[k]] ] ]

\* the manifest create_backup writes when the reads of the tables in failed raise
manifest_of(st, failed) ==
    [ tables |-> [ k \in 1..Len(BackupTables) |->
          IF BackupTables[k] \in failed
          THEN [count |-> 0, error |-> "error"]
          ELSE [count |-> Cardinality(st[BackupTables[k]]), file |-> BackupTables[k]] ] ]

\* the <table>.json files create_backup writes
files_of(st, failed) ==
    [ t \in Range(BackupTables) |->
          IF t \in failed THEN NoFile ELSE [exists |-> TRUE, rows |-> st[t]] ]

\* the records of a snapshot file, in file order
RECURSIVE SortById(_)
SortById(rows) ==
    IF rows = {} THEN <<>>
    ELSE LET first == CHOOSE r \in rows : \A q \in rows : r.id <= q.id
         IN  <<first>> \o SortById(rows \ {first})

SeedStore == StoreOf(SeedInward, SeedEntities)

\* the sets of tables whose read raises during one create_backup
ReadFailures == { {}, {"legal_entities"}, {"policies", "slips"} }

----------------------------------------------------------------------------
(* Entry points of import_production.py *)

ZeroCounters ==
    [ entities_inserted |-> 0, entities_errors |-> 0, records_inserted |-> 0,
      records_errors |-> 0, inserted_count |-> 0, error_count |-> 0,
      total_inserted |-> 0, total_errors |-> 0, total_skipped |-> 0,
      inserted_claims |-> 0, inserted_transactions |-> 0 ]

Locals0 ==
    /\ dry_run = FALSE
    /\ batch_id = None
    /\ all_records = <<>>
    /\ sheets_to_process = <<>>
    /\ skipped_count = 0
    /\ all_transactions = <<>>
    /\ claim_id_map = <<>>
    /\ transactions_to_insert = <<>>
    /\ all_entities = <<>>
    /\ new_entities = <<>>
    /\ chunk_start = 0
    /\ row_in_chunk = 0
    /\ table_idx = 0
    /\ count = 0
    /\ counters = ZeroCounters
    /\ error_records = <<>>
    /\ exit_code = "-"
    /\ preview = <<>>
    /\ confirm = NotAsked
    /\ calls = NoCalls

Init ==
    /\ \E st \in InitStates :
          LET failed == IF st[2] = "partial" THEN {"policies"} ELSE {}
          IN  /\ store = st[1]
              /\ IF st[2] = "absent"
                 THEN /\ manifest = NoManifest
                      /\ backup_files = [t \in Range(BackupTables) |-> NoFile]
                 ELSE /\ manifest = manifest_of(SeedStore, failed)
                      /\ backup_files = files_of(SeedStore, failed)
    /\ fn_args = <<>>
    /\ fn_result = <<>>
    /\ nextId = FirstId
    /\ tool = "none"
    /\ pc = "idle"
    /\ store0 = store
    /\ Locals0

\* what every entry point does to the bookkeeping when it starts
Begin(t) ==
    /\ pc = "idle"
    /\ tool' = t
    /\ store0' = store
    /\ calls' = NoCalls
    /\ confirm' = NotAsked
    /\ counters' = ZeroCounters
    /\ error_records' = <<>>
    /\ all_records' = <<>>
    /\ all_entities' = <<>>
    /\ new_entities' = <<>>
    /\ chunk_start' = 0
    /\ row_in_chunk' = 0
    /\ count' = 0
    /\ preview' = <<>>

\* main --backup: configuration check, then create_backup
main_backup ==
    /\ Begin("backup")
    /\ \E config_ok \in BOOLEAN :
          IF config_ok THEN pc' = "backup" /\ exit_code' = "-"
          ELSE pc' = "done" /\ exit_code' = "exit1"
    /\ UNCHANGED << staging_vars, pure_vars, store, nextId, manifest, backup_files, dry_run, batch_id, table_idx >>

\* create_backup when the reads that raise are one of failures: one select
\* per table; a failed read is recorded in the manifest
create_backup_reads(failures) ==
    /\ pc = "backup"
    /\ \E failed \in failures :
          /\ manifest' = manifest_of(store, failed)
          /\ backup_files' = files_of(store, failed)
    /\ calls' = [calls EXCEPT !.select = @ + Len(BackupTables)]
    /\ IF tool = "backup" THEN pc' = "done" /\ exit_code' = "return"
       ELSE pc' = "ri_confirm" /\ UNCHANGED exit_code
    /\ UNCHANGED << staging_vars, pure_vars, store, nextId, tool, dry_run, batch_id,
                    all_records, all_entities, new_entities, chunk_start,
                    row_in_chunk, table_idx, count, counters, error_records,
                    preview, confirm, store0 >>

\* create_backup
create_backup == create_backup_reads(ReadFailures)

\* main --restore NAME and the head of restore_from_backup: the manifest must exist
restore_from_backup_start ==
    /\ Begin("restore")
    /\ \E config_ok \in BOOLEAN, name_found \in BOOLEAN :
          IF ~config_ok THEN pc' = "done" /\ exit_code' = "exit1"
          ELSE IF manifest = NoManifest \/ ~name_found
          THEN pc' = "done" /\ exit_code' = "False"
          ELSE pc' = "rs_confirm" /\ exit_code' = "-"
    /\ table_idx' = 0
    /\ UNCHANGED << staging_vars, pure_vars, store, nextId, manifest, backup_files, dry_run, batch_id >>

\* a restore prompt whose answer is not looked at
restore_from_backup_unconfirmed ==
    /\ pc = "rs_confirm"
    /\ \E answer \in Answers :
          /\ confirm' = answer
          /\ pc' = "rs_table"
          /\ table_idx' = 1
          /\ UNCHANGED exit_code
    /\ UNCHANGED << staging_vars, pure_vars, store, nextId, manifest, backup_files,
                    tool, dry_run, batch_id, all_records, all_entities,
                    new_entities, chunk_start, row_in_chunk, count, counters,
                    error_records, preview, calls, store0 >>

\* restore_from_backup: the "Continue? (yes/no)" prompt
restore_from_backup_confirm ==
    /\ pc = "rs_confirm"
    /\ \E answer \in Answers :
          /\ confirm' = answer
          /\ IF Affirmative(answer)
             THEN pc' = "rs_table" /\ table_idx' = 1 /\ UNCHANGED exit_code
             ELSE pc' = "done" /\ exit_code' = "False" /\ UNCHANGED table_idx
    /\ UNCHANGED << staging_vars, pure_vars, store, nextId, manifest, backup_files, tool, dry_run,
                    batch_id, all_records, all_entities,
                    new_entities, chunk_start, row_in_chunk, count, counters,
                    error_records, preview, calls, store0 >>

\* restore_from_backup: one pass of the table loop up to the first insert:
\* skip a table with a manifest error or no file, else delete its rows and
\* load the snapshot file
restore_from_backup_table ==
    /\ pc = "rs_table"
    /\ LET t == BackupTables[table_idx]
           info == manifest.tables[table_idx]
           last == table_idx = Len(BackupTables)
           skip == /\ pc' = IF last THEN "done" ELSE "rs_table"
                   /\ exit_code' = IF last THEN "True" ELSE exit_code
                   /\ table_idx' = table_idx + 1
                   /\ UNCHANGED << store, calls, chunk_start >>
       IN  IF "error" \in DOMAIN info THEN skip
           ELSE \E file_found \in {backup_files[t].exists, FALSE} :
                  IF ~file_found THEN skip
                  ELSE \E delete_ok \in BOOLEAN, load_ok \in BOOLEAN :
                         /\ calls' = Called("delete")
                         /\ store' = IF delete_ok THEN delete_all(store, t) ELSE store
                         /\ IF ~delete_ok \/ ~load_ok
                            THEN /\ pc' = "done"
                                 /\ exit_code' = "False"
                                 /\ UNCHANGED << table_idx, chunk_start >>
                            ELSE IF backup_files[t].rows = {}
                            THEN /\ pc' = IF last THEN "done" ELSE "rs_table"
                                 /\ exit_code' = IF last THEN "True" ELSE exit_code
                                 /\ table_idx' = table_idx + 1
                                 /\ UNCHANGED chunk_start
                            ELSE /\ pc' = "rs_insert"
                                 /\ chunk_start' = 0
                                 /\ UNCHANGED << table_idx, exit_code >>
    /\ UNCHANGED << staging_vars, pure_vars, nextId, manifest, backup_files, tool, dry_run, batch_id, all_records, all_entities, new_entities,
                    row_in_chunk, count, counters, error_records, preview,
                    confirm, store0 >>

\* restore_from_backup: insert one batch of the snapshot's records
restore_from_backup_insert ==
    /\ pc = "rs_insert"
    /\ LET t == BackupTables[table_idx]
           records == SortById(backup_files[t].rows)
           batch == Chunk(records, chunk_start)
           last == table_idx = Len(BackupTables)
       IN  \E ok \in BOOLEAN :
              /\ calls' = Called("insert")
              /\ IF ~ok
                 THEN /\ pc' = "done"
                      /\ exit_code' = "False"
                      /\ UNCHANGED << store, chunk_start, table_idx >>
                 ELSE /\ store' = insert_with_ids(store, t, Range(batch))
                      /\ IF chunk_start + BATCH_SIZE < Len(records)
                         THEN /\ chunk_start' = chunk_start + BATCH_SIZE
                              /\ UNCHANGED << pc, table_idx, exit_code >>
                         ELSE /\ chunk_start' = 0
                              /\ table_idx' = table_idx + 1
                              /\ pc' = IF last THEN "done" ELSE "rs_table"
                              /\ exit_code' = IF last THEN "True" ELSE exit_code
    /\ UNCHANGED << staging_vars, pure_vars, nextId, manifest, backup_files, tool, dry_run, batch_id, all_records, all_entities, new_entities,
                    row_in_chunk, count, counters, error_records, preview,
                    confirm, store0 >>

\* rollback arguments: a batch found in the store, a batch of this model's
\* runs, or one that tags no row
RollbackArgs == {OldBatch, OtherBatch, NewBatch}

\* main --rollback BATCH_ID
rollback_batch_start ==
    /\ Begin("rollback")
    /\ \E config_ok \in BOOLEAN, b \in RollbackArgs :
          /\ batch_id' = b
          /\ IF config_ok THEN pc' = "rb_count" /\ exit_code' = "-"
             ELSE pc' = "done" /\ exit_code' = "exit1"
    /\ table_idx' = 1
    /\ UNCHANGED << staging_vars, pure_vars, store, nextId, manifest, backup_files, dry_run >>

\* leave the current pass of rollback_batch's table loop
rollback_next_table ==
    /\ table_idx' = table_idx + 1
    /\ pc' = IF table_idx = Len(RollbackTables) THEN "done" ELSE "rb_count"
    /\ exit_code' = IF table_idx = Len(RollbackTables) THEN "True" ELSE exit_code

\* rollback_batch: count the rows of the table that carry the batch id;
\* ok = FALSE is the select that raises, which the except of the loop body
\* catches, so that the table is skipped
rollback_batch_count ==
    /\ pc = "rb_count"
    /\ calls' = Called("select")
    /\ \E ok \in BOOLEAN :
          LET n == count_eq_batch(store, RollbackTables[table_idx], batch_id)
          IN  IF ok /\ n # 0
              THEN /\ count' = n
                   /\ pc' = "rb_confirm"
                   /\ UNCHANGED << table_idx, exit_code >>
              ELSE /\ count' = IF ok THEN n ELSE count
                   /\ rollback_next_table
    /\ UNCHANGED << staging_vars, pure_vars, store, nextId, manifest, backup_files, tool, dry_run,
                    batch_id, all_records, all_entities,
                    new_entities, chunk_start, row_in_chunk, counters,
                    error_records, preview, confirm, store0 >>

\* a prompt whose non-affirmative answer ends the whole rollback
rollback_batch_confirm_aborts ==
    /\ pc = "rb_confirm"
    /\ \E answer \in Answers :
          /\ confirm' = answer
          /\ IF Affirmative(answer)
             THEN pc' = "rb_delete" /\ UNCHANGED << table_idx, exit_code >>
             ELSE pc' = "done" /\ exit_code' = "True" /\ UNCHANGED table_idx
    /\ UNCHANGED << staging_vars, pure_vars, store, nextId, manifest, backup_files, tool, dry_run,
                    batch_id, all_records, all_entities,
                    new_entities, chunk_start, row_in_chunk, count, counters,
                    error_records, preview, calls, store0 >>

\* rollback_batch: the "Delete N records from T? (yes/no)" prompt
rollback_batch_confirm ==
    /\ pc = "rb_confirm"
    /\ \E answer \in Answers :
          /\ confirm' = answer
          /\ IF Affirmative(answer)
             THEN pc' = "rb_delete" /\ UNCHANGED << table_idx, exit_code >>
             ELSE rollback_next_table
    /\ UNCHANGED << staging_vars, pure_vars, store, nextId, manifest, backup_files, tool, dry_run,
                    batch_id, all_records, all_entities,
                    new_entities, chunk_start, row_in_chunk, count, counters,
                    error_records, preview, calls, store0 >>

\* rollback_batch: delete the rows of the table that carry the batch id
rollback_batch_delete ==
    /\ pc = "rb_delete"
    /\ calls' = Called("delete")
    /\ \E ok \in BOOLEAN :
          store' = IF ok THEN delete_eq_batch(store, RollbackTables[table_idx], batch_id)
                   ELSE store
    /\ rollback_next_table
    /\ UNCHANGED << staging_vars, pure_vars, nextId, manifest, backup_files, tool, dry_run, batch_id, all_records, all_entities, new_entities,
                    chunk_start, row_in_chunk, count, counters, error_records,
                    preview, confirm, store0 >>

----------------------------------------------------------------------------
(* Reading the workbook *)

SkipWords ==
    { <<"t", "e", "m", "p", "l", "a", "t", "e">>, <<"b", "l", "a", "n", "k">>,
      <<"s", "u", "m", "m", "a", "r", "y">>, <<"p", "i", "v", "o", "t">>,
      <<"c", "h", "a", "r", "t">> }

\* the row loop of process_all_sheets; the header is row 0, so the k-th data
\* row has row_idx = k and row_number = k + 1
RECURSIVE parse_rows(_, _, _, _)
parse_rows(rows, k, sheet_name, batch) ==
    IF k > Len(rows) THEN <<>>
    ELSE parse_row(rows[k], k + 1, sheet_name, batch)
             \o parse_rows(rows, k + 1, sheet_name, batch)

\* process_all_sheets: skipped sheet names, and sheets whose read raises,
\* contribute no record
RECURSIVE process_all_sheets(_, _)
process_all_sheets(wb, batch) ==
    IF wb = <<>> THEN <<>>
    ELSE LET sheet == Head(wb)
             skipped == \E w \in SkipWords : Contains(lower(sheet.name), w)
         IN  (IF skipped \/ ~sheet.readable THEN <<>>
              ELSE parse_rows(sheet.rows, 1, sheet.name, batch))
                 \o process_all_sheets(Tail(wb), batch)

----------------------------------------------------------------------------
(* The chunk commit loop shared by the importers *)

\* a loop that ends after the chunk in hand, whatever is left
chunk_done_last(records, loop_pc, after_pc) ==
    chunk_start' = 0 /\ pc' = after_pc

\* leave the current chunk: the next chunk of the loop, or what follows the loop
chunk_done(records, loop_pc, after_pc) ==
    IF chunk_start + BATCH_SIZE < Len(records)
    THEN chunk_start' = chunk_start + BATCH_SIZE /\ pc' = loop_pc
    ELSE chunk_start' = 0 /\ pc' = after_pc

\* a chunk loop that gives up on a rejected chunk instead of retrying its rows
bulk_insert_no_retry(ok, table, records, inserted, loop_pc, rows_pc, after_pc) ==
    LET batch == Chunk(records, chunk_start)
    IN  /\ calls' = Called("insert")
        /\ row_in_chunk' = 0
        /\ chunk_done(records, loop_pc, after_pc)
        /\ IF ok
           THEN /\ store' = insert_rows(store, table, batch, nextId)
                /\ nextId' = nextId + Len(batch)
                /\ counters' = [counters EXCEPT ![inserted] = @ + Len(batch)]
           ELSE UNCHANGED << store, nextId, counters >>

\* try: insert(batch); inserted += len(batch)   except: fall back to the rows
bulk_insert(ok, table, records, inserted, loop_pc, rows_pc, after_pc) ==
    LET batch == Chunk(records, chunk_start)
    IN  /\ calls' = Called("insert")
        /\ IF ok
           THEN /\ store' = insert_rows(store, table, batch, nextId)
                /\ nextId' = nextId + Len(batch)
                /\ counters' = [counters EXCEPT ![inserted] = @ + Len(batch)]
                /\ row_in_chunk' = 0
                /\ chunk_done(records, loop_pc, after_pc)
           ELSE /\ pc' = rows_pc
                /\ row_in_chunk' = 1
                /\ UNCHANGED << store, nextId, counters, chunk_start >>

\* for record in batch: try: insert(record); inserted += 1  except: errors += 1
\* (errors = "" for the loops that keep no error counter)
row_insert(ok, table, records, inserted, errors, loop_pc, after_pc) ==
    LET batch == Chunk(records, chunk_start)
        record == batch[row_in_chunk]
    IN  /\ calls' = [calls EXCEPT !.insert = @ + 1,
                                   !.rejected = @ + (IF ok THEN 0 ELSE 1)]
        /\ IF ok
           THEN /\ store' = insert_rows(store, table, <<record>>, nextId)
                /\ nextId' = nextId + 1
                /\ counters' = [counters EXCEPT ![inserted] = @ + 1]
           ELSE /\ counters' = IF errors = "" THEN counters
                               ELSE [counters EXCEPT ![errors] = @ + 1]
                /\ UNCHANGED << store, nextId >>
        /\ IF row_in_chunk < Len(batch)
           THEN row_in_chunk' = row_in_chunk + 1 /\ UNCHANGED << pc, chunk_start >>
           ELSE row_in_chunk' = 0 /\ chunk_done(records, loop_pc, after_pc)

----------------------------------------------------------------------------
(* run_import of import_production.py *)

\* main --dry-run / --import and the head of run_import when str(uuid4())[:8]
\* gives batch: a batch id, then the configuration, source file and
\* connection checks
run_import_start_as(batch) ==
    \E dry \in BOOLEAN, setup_ok \in BOOLEAN :
        /\ Begin(IF dry THEN "dry_run" ELSE "import")
        /\ dry_run' = dry
        /\ batch_id' = batch
        /\ IF ~setup_ok THEN pc' = "done" /\ exit_code' = "exit1"
           ELSE pc' = (IF dry THEN "ri_read" ELSE "backup") /\ exit_code' = "-"
        /\ UNCHANGED << staging_vars, pure_vars, store, nextId, manifest, backup_files, table_idx >>

\* main --dry-run / --import and the head of run_import
run_import_start == run_import_start_as(NewBatch)

\* a proceed prompt whose answer is not looked at
run_import_unconfirmed ==
    /\ pc = "ri_confirm"
    /\ \E answer \in Answers :
          /\ confirm' = answer
          /\ pc' = "ri_read"
          /\ UNCHANGED exit_code
    /\ UNCHANGED << staging_vars, pure_vars, store, nextId, manifest, backup_files, tool, dry_run,
                    batch_id, all_records, all_entities,
                    new_entities, chunk_start, row_in_chunk, table_idx, count,
                    counters, error_records, preview, calls, store0 >>

\* run_import: the "Proceed with import? (yes/no)" prompt of a live run
run_import_confirm ==
    /\ pc = "ri_confirm"
    /\ \E answer \in Answers :
          /\ confirm' = answer
          /\ IF Affirmative(answer) THEN pc' = "ri_read" /\ UNCHANGED exit_code
             ELSE pc' = "done" /\ exit_code' = "exit0"
    /\ UNCHANGED << staging_vars, pure_vars, store, nextId, manifest, backup_files, tool, dry_run,
                    batch_id, all_records, all_entities,
                    new_entities, chunk_start, row_in_chunk, table_idx, count,
                    counters, error_records, preview, calls, store0 >>

\* a run_import whose dry-run branch was lost: it goes on to the commit loops
run_import_read_no_preview ==
    /\ pc = "ri_read"
    /\ \E source_ok \in BOOLEAN, wb \in Workbooks :
          IF ~source_ok
          THEN /\ pc' = "done"
               /\ exit_code' = "exit1"
               /\ UNCHANGED << all_records, all_entities >>
          ELSE /\ all_records' = process_all_sheets(wb, batch_id)
               /\ all_entities' = extract_legal_entities(all_records')
               /\ pc' = "ri_check"
               /\ UNCHANGED exit_code
    /\ UNCHANGED << staging_vars, pure_vars, store, nextId, manifest, backup_files,
                    tool, dry_run, batch_id, new_entities, chunk_start,
                    row_in_chunk, table_idx, count, counters, error_records,
                    preview, confirm, calls, store0 >>

\* run_import steps 2-4: decrypt, open the workbook, process_all_sheets,
\* extract_legal_entities
run_import_read ==
    /\ pc = "ri_read"
    /\ \E source_ok \in BOOLEAN, wb \in Workbooks :
          IF ~source_ok
          THEN /\ pc' = "done"
               /\ exit_code' = "exit1"
               /\ UNCHANGED << all_records, all_entities >>
          ELSE /\ all_records' = process_all_sheets(wb, batch_id)
               /\ all_entities' = extract_legal_entities(all_records')
               /\ pc' = IF dry_run THEN "ri_preview" ELSE "ri_check"
               /\ UNCHANGED exit_code
    /\ UNCHANGED << staging_vars, pure_vars, store, nextId, manifest, backup_files, tool, dry_run,
                    batch_id, new_entities, chunk_start,
                    row_in_chunk, table_idx, count, counters, error_records,
                    preview, confirm, calls, store0 >>

\* stats of the dry-run branch: the batch id and the totals of
\* previews/import_stats.json
stats(batch, records, entities) ==
    [ batch_id |-> batch,
      total_records |-> Len(records),
      total_entities |-> Len(entities) ]

\* run_import: the dry-run branch writes the preview files and returns
run_import_preview ==
    /\ pc = "ri_preview"
    /\ preview' = stats(batch_id, all_records, all_entities)
                  @@ [ records |-> SubSeq(all_records, 1, Min(100, Len(all_records))),
                       entities |-> all_entities ]
    /\ new_entities' = all_entities
    /\ pc' = "done"
    /\ exit_code' = "return"
    /\ UNCHANGED << staging_vars, pure_vars, store, nextId, manifest, backup_files, tool, dry_run,
                    batch_id, all_records, all_entities,
                    chunk_start, row_in_chunk, table_idx, count, counters,
                    error_records, confirm, calls, store0 >>

\* run_import: new_entities = check_existing_entities(supabase, all_entities)
run_import_check ==
    /\ pc = "ri_check"
    /\ \E read_ok \in BOOLEAN :
          new_entities' = check_existing_entities(all_entities,
              IF read_ok THEN Response(store["legal_entities"]) ELSE ReadFailed)
    /\ calls' = IF all_entities = <<>> THEN calls ELSE Called("select")
    /\ pc' = IF new_entities' # <<>> THEN "ri_entities"
             ELSE IF all_records # <<>> THEN "ri_records" ELSE "done"
    /\ exit_code' = IF pc' = "done" THEN "return" ELSE exit_code
    /\ UNCHANGED << staging_vars, pure_vars, store, nextId, manifest, backup_files, tool, dry_run,
                    batch_id, all_records, all_entities,
                    chunk_start, row_in_chunk, table_idx, count, counters,
                    error_records, preview, confirm, store0 >>

\* run_import step 5: bulk insert of one chunk of new_entities
run_import_entities ==
    /\ pc = "ri_entities"
    /\ \E ok \in BOOLEAN :
          bulk_insert(ok, "legal_entities", new_entities, "entities_inserted",
                      "ri_entities", "ri_entity_rows",
                      IF all_records # <<>> THEN "ri_records" ELSE "done")
    /\ exit_code' = IF pc' = "done" THEN "return" ELSE exit_code
    /\ UNCHANGED << staging_vars, pure_vars, manifest, backup_files, tool, dry_run, batch_id, all_records, all_entities, new_entities,
                    table_idx, count, error_records, preview, confirm, store0 >>

\* run_import step 5: the one-by-one fallback of a rejected entity chunk
run_import_entity_rows ==
    /\ pc = "ri_entity_rows"
    /\ \E ok \in BOOLEAN :
          row_insert(ok, "legal_entities", new_entities, "entities_inserted",
                     "entities_errors", "ri_entities",
                     IF all_records # <<>> THEN "ri_records" ELSE "done")
    /\ exit_code' = IF pc' = "done" THEN "return" ELSE exit_code
    /\ UNCHANGED << staging_vars, pure_vars, manifest, backup_files, tool, dry_run, batch_id, all_records, all_entities, new_entities,
                    table_idx, count, error_records, preview, confirm, store0 >>

\* run_import step 6: bulk insert of one chunk of all_records
run_import_records ==
    /\ pc = "ri_records"
    /\ \E ok \in BOOLEAN :
          bulk_insert(ok, "inward_reinsurance", all_records, "records_inserted",
                      "ri_records", "ri_record_rows", "done")
    /\ exit_code' = IF pc' = "done" THEN "return" ELSE exit_code
    /\ UNCHANGED << staging_vars, pure_vars, manifest, backup_files, tool, dry_run, batch_id, all_records, all_entities, new_entities,
                    table_idx, count, error_records, preview, confirm, store0 >>

\* run_import step 6: the row-by-row fallback of a rejected record chunk
run_import_record_rows ==
    /\ pc = "ri_record_rows"
    /\ \E ok \in BOOLEAN :
          /\ row_insert(ok, "inward_reinsurance", all_records, "records_inserted",
                        "records_errors", "ri_records", "done")
          /\ error_records' =
                IF ok THEN error_records
                ELSE Append(error_records,
                        Chunk(all_records, chunk_start)[row_in_chunk].contract_number)
    /\ exit_code' = IF pc' = "done" THEN "return" ELSE exit_code
    /\ UNCHANGED << staging_vars, pure_vars, manifest, backup_files, tool, dry_run, batch_id, all_records, all_entities, new_entities,
                    table_idx, count, preview, confirm, store0 >>

----------------------------------------------------------------------------
(* Row parsers of import_all_sheets.py and import_portfolio.py *)

USD == <<"U", "S", "D">>

\* parse_contracts_row: the text columns 1, 2 and 9, the empty-row filter and
\* the defaults
parse_contracts_row(row, row_number) ==
    LET policyNumber == text_cell(get_cell_value(row, 1))
        insuredName == text_cell(get_cell_value(row, 2))
        currency == text_cell(get_cell_value(row, 9))
    IN  IF ~Truthy(policyNumber) /\ ~Truthy(insuredName)
        THEN NoRecord
        ELSE << [ policyNumber |-> policyNumber,
                  insuredName |-> insuredName,
                  currency |-> IF ~Truthy(currency) THEN USD ELSE currency,
                  channel |-> "DIRECT",
                  recordType |-> "INSURANCE",
                  status |-> "ACTIVE",
                  hasOutwardReinsurance |-> FALSE ] >>

\* parse_outward_row: the text columns 1, 3, 4, 5 and 11, the empty-row filter
\* and the defaults
parse_outward_row(row, row_number) ==
    LET policyNumber == text_cell(get_cell_value(row, 1))
        slipNumber == text_cell(get_cell_value(row, 3))
        insuredName == text_cell(get_cell_value(row, 4))
        reinsurerName == text_cell(get_cell_value(row, 5))
        currency == text_cell(get_cell_value(row, 11))
    IN  IF ~Truthy(policyNumber) /\ ~Truthy(insuredName) /\ ~Truthy(slipNumber)
        THEN NoRecord
        ELSE << [ policyNumber |-> policyNumber,
                  slipNumber |-> slipNumber,
                  insuredName |-> insuredName,
                  reinsurerName |-> reinsurerName,
                  currency |-> IF ~Truthy(currency) THEN USD ELSE currency,
                  channel |-> "REINSURANCE",
                  recordType |-> "OUTWARD",
                  status |-> "ACTIVE",
                  hasOutwardReinsurance |-> TRUE ] >>

\* parse_slips_row: the text columns 0, 2, 3 and 6, the empty-row filter and
\* the defaults
parse_slips_row(row, row_number) ==
    LET slipNumber == text_cell(get_cell_value(row, 0))
        insuredName == text_cell(get_cell_value(row, 2))
        brokerReinsurer == text_cell(get_cell_value(row, 3))
        currency == text_cell(get_cell_value(row, 6))
    IN  IF ~Truthy(slipNumber)
        THEN NoRecord
        ELSE << [ slipNumber |-> slipNumber,
                  insuredName |-> insuredName,
                  brokerReinsurer |-> brokerReinsurer,
                  currency |-> IF ~Truthy(currency) THEN USD ELSE currency,
                  isDeleted |-> FALSE ] >>

\* the text columns, sparse-row filter, derived fields and required-field
\* fallbacks that parse_inward_row and import_portfolio.parse_row share
inward_record(row, row_number, importer) ==
    LET original_insured_name == text_cell(get_cell_value(row, 1))
        broker_name == text_cell(get_cell_value(row, 4))
        cedant_name == text_cell(get_cell_value(row, 5))
        contract_number == text_cell(get_cell_value(row, 7))
        territory == text_cell(get_cell_value(row, 16))
        currency == text_cell(get_cell_value(row, 19))
    IN  IF ~Truthy(cedant_name) /\ ~Truthy(contract_number)
           /\ ~Truthy(original_insured_name)
        THEN NoRecord
        ELSE << [ original_insured_name |-> original_insured_name,
                  broker_name |-> broker_name,
                  cedant_name |-> IF ~Truthy(cedant_name) THEN N_UnknownCedant
                                  ELSE cedant_name,
                  contract_number |->
                      IF ~Truthy(contract_number)
                      THEN <<"I", "M", "P", "O", "R", "T", "-", Digit(row_number)>>
                      ELSE contract_number,
                  territory |-> territory,
                  currency |-> IF ~Truthy(currency) THEN USD ELSE currency,
                  origin |-> determine_origin(territory, currency),
                  type |-> "FAC",
                  status |-> "ACTIVE",
                  cedant_country |-> territory ]
                  @@ required_fields(row, importer)
                  @@ [ notes |-> notes_of(row) ] >>

\* import_all_sheets.parse_inward_row
parse_inward_row(row, row_number) == inward_record(row, row_number, "all_sheets")

\* import_portfolio.parse_row
parse_portfolio_row(row, row_number) == inward_record(row, row_number, "portfolio")

\* parse_func(row, row_number) for the parser main hands to process_sheet
parse_func(sheet_type, row, row_number) ==
    CASE sheet_type = "contracts" -> parse_contracts_row(row, row_number)
      [] sheet_type = "outward" -> parse_outward_row(row, row_number)
      [] sheet_type = "slips" -> parse_slips_row(row, row_number)
      [] sheet_type = "inward" -> parse_inward_row(row, row_number)
      [] sheet_type = "portfolio" -> parse_portfolio_row(row, row_number)

\* the table main hands to process_sheet
table_name(sheet_type) ==
    CASE sheet_type = "contracts" -> "policies"
      [] sheet_type = "outward" -> "policies"
      [] sheet_type = "slips" -> "slips"
      [] sheet_type = "inward" -> "inward_reinsurance"

\* the row loop of process_sheet and import_portfolio.main; the header is
\* row 0, so the k-th data row has row_number = k + 1
RECURSIVE parse_sheet(_, _, _)
parse_sheet(sheet_type, rows, k) ==
    IF k > Len(rows) THEN <<>>
    ELSE parse_func(sheet_type, rows[k], k + 1) \o parse_sheet(sheet_type, rows, k + 1)

\* the data rows a staging sheet can hold: a row the parser keeps and, for the
\* inward and portfolio sheets, one it drops
StagingRows(sheet_type) ==
    CASE sheet_type = "contracts" -> { (1 :> K_C1 @@ 2 :> N_Zed) }
      [] sheet_type = "outward" -> { (3 :> K_C2 @@ 5 :> N_SwissReinsurer) }
      [] sheet_type = "slips" -> { (0 :> K_C2 @@ 2 :> N_Zed) }
      [] OTHER -> { (1 :> N_Zed @@ 5 :> N_AcmeInsurance @@ 16 :> T_UK),
                    (1 :> N_Blank @@ 4 :> N_MarshBroker) }

StagingSheets(sheet_type) == UNION { [1..n -> StagingRows(sheet_type)] : n \in 0..MaxRows }

\* records[:PREVIEW_ROWS]
Preview(records, PREVIEW_ROWS) == SubSeq(records, 1, Min(PREVIEW_ROWS, Len(records)))

----------------------------------------------------------------------------
(* main, process_sheet and import_sheet of import_all_sheets.py *)

\* what the chunk loops of the staging importers leave alone
staging_frame ==
    << manifest, backup_files, tool, dry_run, batch_id, all_records, all_entities,
       new_entities, table_idx, count, preview, confirm, store0, sheets_to_process,
       skipped_count, pure_vars >>

\* main: arguments, configuration, source file, workbook and connection
\* checks, then the list of sheets to process
import_all_sheets_main ==
    \E dry \in BOOLEAN, setup_ok \in BOOLEAN,
       arg \in {"none", "all", "contracts", "outward", "slips", "inward"} :
        /\ Begin("all_sheets")
        /\ dry_run' = dry
        /\ IF ~dry /\ arg = "none"
           THEN pc' = "done" /\ exit_code' = "exit0" /\ UNCHANGED sheets_to_process
           ELSE IF ~setup_ok
           THEN pc' = "done" /\ exit_code' = "exit1" /\ UNCHANGED sheets_to_process
           ELSE /\ sheets_to_process' =
                      IF arg = "all" THEN <<"contracts", "outward", "slips">>
                      ELSE IF arg # "none" THEN <<arg>>
                      ELSE <<"contracts", "outward", "slips", "inward">>
                /\ pc' = "as_sheet"
                /\ exit_code' = "-"
        /\ UNCHANGED << store, nextId, manifest, backup_files, batch_id, table_idx,
                        skipped_count, all_transactions, claim_id_map,
                        transactions_to_insert, pure_vars >>

\* main: the next pass of the loop over sheets_to_process, or the summary
next_sheet ==
    /\ sheets_to_process' = Tail(sheets_to_process)
    /\ pc' = IF Tail(sheets_to_process) = <<>> THEN "done" ELSE "as_sheet"
    /\ exit_code' = IF Tail(sheets_to_process) = <<>> THEN "return" ELSE exit_code

\* process_sheet up to the first insert: find the sheet, read and parse its
\* rows; a dry run writes the preview file in import_sheet and returns
process_sheet ==
    /\ pc = "as_sheet"
    /\ LET sheet_type == Head(sheets_to_process)
       IN  \E found \in BOOLEAN, readable \in BOOLEAN,
              rows \in StagingSheets(sheet_type) :
             \E parsed_records \in { parse_sheet(sheet_type, rows, 1) } :
             LET skipped == Len(rows) - Len(parsed_records)
             IN  IF ~found
                 THEN /\ next_sheet
                      /\ UNCHANGED << all_records, skipped_count, counters,
                                      preview, chunk_start >>
                 ELSE IF ~readable
                 THEN /\ pc' = "done"
                      /\ exit_code' = "raise"
                      /\ UNCHANGED << all_records, skipped_count, counters,
                                      preview, chunk_start, sheets_to_process >>
                 ELSE IF parsed_records = <<>>
                 THEN /\ next_sheet
                      /\ counters' = [counters EXCEPT !.total_skipped = @ + skipped]
                      /\ UNCHANGED << all_records, skipped_count, preview,
                                      chunk_start >>
                 ELSE IF dry_run
                 THEN /\ next_sheet
                      /\ preview' = Append(preview,
                             [ sheet |-> sheet_type,
                               records |-> Preview(parsed_records, 10) ])
                      /\ counters' =
                            [counters EXCEPT
                                !.total_inserted = @ + Len(parsed_records),
                                !.total_skipped = @ + skipped]
                      /\ UNCHANGED << all_records, skipped_count, chunk_start >>
                 ELSE /\ all_records' = parsed_records
                      /\ skipped_count' = skipped
                      /\ counters' = [counters EXCEPT !.inserted_count = 0,
                                                      !.error_count = 0]
                      /\ chunk_start' = 0
                      /\ pc' = "as_chunk"
                      /\ UNCHANGED << exit_code, preview, sheets_to_process >>
    /\ UNCHANGED << store, nextId, manifest, backup_files, tool, dry_run, batch_id,
                    all_entities, new_entities, row_in_chunk, table_idx, count,
                    error_records, confirm, calls, store0, all_transactions,
                    claim_id_map, transactions_to_insert, pure_vars >>

\* import_sheet: bulk insert of one chunk of the sheet's records
import_sheet ==
    /\ pc = "as_chunk"
    /\ \E ok \in BOOLEAN :
          bulk_insert(ok, table_name(Head(sheets_to_process)), all_records,
                      "inserted_count", "as_chunk", "as_rows", "as_return")
    /\ UNCHANGED << staging_frame, exit_code, error_records, all_transactions,
                    claim_id_map, transactions_to_insert >>

\* import_sheet: the row-by-row retry of a rejected chunk
import_sheet_rows ==
    /\ pc = "as_rows"
    /\ \E ok \in BOOLEAN :
          row_insert(ok, table_name(Head(sheets_to_process)), all_records,
                     "inserted_count", "error_count", "as_chunk", "as_return")
    /\ UNCHANGED << staging_frame, exit_code, error_records, all_transactions,
                    claim_id_map, transactions_to_insert >>

\* import_sheet and process_sheet return; main adds the sheet to its totals
process_sheet_return ==
    /\ pc = "as_return"
    /\ counters' = [counters EXCEPT
                       !.total_inserted = @ + counters.inserted_count,
                       !.total_errors = @ + counters.error_count,
                       !.total_skipped = @ + skipped_count]
    /\ all_records' = <<>>
    /\ skipped_count' = 0
    /\ next_sheet
    /\ UNCHANGED << store, nextId, manifest, backup_files, tool, dry_run, batch_id,
                    all_entities, new_entities, chunk_start, row_in_chunk,
                    table_idx, count, error_records, preview, confirm, calls,
                    store0, all_transactions, claim_id_map,
                    transactions_to_insert, pure_vars >>

----------------------------------------------------------------------------
(* main of import_portfolio.py *)

\* main: the configuration and source file checks
import_portfolio_main ==
    \E dry \in BOOLEAN, setup_ok \in BOOLEAN :
        /\ Begin("portfolio")
        /\ dry_run' = dry
        /\ IF setup_ok THEN pc' = "pf_read" /\ exit_code' = "-"
           ELSE pc' = "done" /\ exit_code' = "exit1"
        /\ UNCHANGED << store, nextId, manifest, backup_files, batch_id, table_idx,
                        staging_vars, pure_vars >>

\* main steps 1-5: decrypt, open the workbook, parse every row; a dry run
\* writes import_preview.json and returns, a live run connects to the store
import_portfolio_read ==
    /\ pc = "pf_read"
    /\ \E source_ok \in BOOLEAN, readable \in BOOLEAN, connect_ok \in BOOLEAN,
          rows \in StagingSheets("portfolio") :
          \E parsed_records \in { parse_sheet("portfolio", rows, 1) } :
              IF ~source_ok \/ ~readable
              THEN /\ pc' = "done"
                   /\ exit_code' = IF ~source_ok THEN "exit1" ELSE "raise"
                   /\ UNCHANGED << all_records, skipped_count, preview >>
              ELSE /\ all_records' = parsed_records
                   /\ skipped_count' = Len(rows) - Len(parsed_records)
                   /\ preview' = IF dry_run THEN Preview(parsed_records, 20)
                                 ELSE preview
                   /\ IF dry_run THEN pc' = "done" /\ exit_code' = "return"
                      ELSE IF ~connect_ok THEN pc' = "done" /\ exit_code' = "exit1"
                      ELSE IF parsed_records = <<>>
                      THEN pc' = "done" /\ exit_code' = "return"
                      ELSE pc' = "pf_chunk" /\ UNCHANGED exit_code
    /\ UNCHANGED << store, nextId, manifest, backup_files, tool, dry_run, batch_id,
                    all_entities, new_entities, chunk_start, row_in_chunk,
                    table_idx, count, counters, error_records, confirm, calls,
                    store0, sheets_to_process, all_transactions, claim_id_map,
                    transactions_to_insert, pure_vars >>

\* main step 6: bulk insert of one chunk of parsed_records
import_portfolio_insert ==
    /\ pc = "pf_chunk"
    /\ \E ok \in BOOLEAN :
          bulk_insert(ok, "inward_reinsurance", all_records, "inserted_count",
                      "pf_chunk", "pf_rows", "done")
    /\ exit_code' = IF pc' = "done" THEN "return" ELSE exit_code
    /\ UNCHANGED << staging_frame, error_records, all_transactions, claim_id_map,
                    transactions_to_insert >>

\* main step 6: the row-by-row retry of a rejected chunk
import_portfolio_rows ==
    /\ pc = "pf_rows"
    /\ \E ok \in BOOLEAN :
          /\ row_insert(ok, "inward_reinsurance", all_records, "inserted_count",
                        "error_count", "pf_chunk", "done")
          /\ error_records' =
                IF ok THEN error_records
                ELSE Append(error_records,
                        Chunk(all_records, chunk_start)[row_in_chunk].contract_number)
    /\ exit_code' = IF pc' = "done" THEN "return" ELSE exit_code
    /\ UNCHANGED << staging_frame, all_transactions, claim_id_map,
                    transactions_to_insert >>

----------------------------------------------------------------------------
(* Parent matching and row parsing of import_claims.py *)

\* an optional number or id: <<>> for None, <<n>> for n
NoValue == <<>>

\* the numeric cell of a column; a missing column reads None
number_cell(row, col_idx) == IF col_idx \in DOMAIN row THEN <<row[col_idx]>> ELSE NoValue

\* value and value > 0
Positive(value) == value # NoValue /\ value[1] > 0

\* value or default: the default replaces None and the number 0 alike
value_or(value, default) ==
    IF value = NoValue \/ value[1] = 0 THEN default ELSE value[1]

\* our_share_percentage: None, or our_share_decimal * 100
percentage_of(our_share_decimal) ==
    IF our_share_decimal = NoValue THEN NoValue ELSE <<our_share_decimal[1] * 100>>

\* SOURCE_TYPE_MAP, in dict order
SOURCE_TYPE_MAP ==
    << <<<<"f", "o", "r", "e", "i", "g", "n", " ", "i", "n", "w", "a", "r", "d">>, "inward-foreign">>,
       <<<<"l", "o", "c", "a", "l", " ", "i", "n", "w", "a", "r", "d">>, "inward-domestic">>,
       <<<<"d", "o", "m", "e", "s", "t", "i", "c", " ", "i", "n", "w", "a", "r", "d">>, "inward-domestic">>,
       <<<<"d", "i", "r", "e", "c", "t">>, "direct">>,
       <<<<"l", "o", "c", "a", "l", " ", "o", "u", "t", "w", "a", "r", "d">>, "outward">> >>

\* determine_source_type: the first key of SOURCE_TYPE_MAP the cell contains
determine_source_type(col0_value) ==
    IF col0_value = None THEN "unknown"
    ELSE LET val_lower == lower(strip(col0_value))
             hits == { k \in 1..Len(SOURCE_TYPE_MAP) :
                         Contains(val_lower, SOURCE_TYPE_MAP[k][1]) }
         IN  IF hits = {} THEN "unknown"
             ELSE SOURCE_TYPE_MAP[CHOOSE k \in hits : \A j \in hits : k <= j][2]

\* an empty dict
EmptyMap == [k \in {} |-> 0]

\* str(x).strip().lower() if x else ""
lookup_key(value) == IF Truthy(value) THEN lower(strip(value)) ELSE <<>>

\* the dicts the loop of build_lookup_maps can leave for one column: every key
\* maps to the id of a row that has it; which one depends on the order of the
\* rows in the response
lookup_maps(rows, column) ==
    LET keyed == { r \in rows : Truthy(Get(r.data, column)) }
        keys == { lookup_key(r.data[column]) : r \in keyed }
        ids == { r.id : r \in keyed }
    IN  { m \in [keys -> ids] :
            \A k \in keys : \E r \in keyed : lookup_key(r.data[column]) = k /\ m[k] = r.id }

\* build_lookup_maps: a failed read leaves the maps of its table empty
build_lookup_maps(st, policies_ok, inward_ok) ==
    { [ policies_by_number |-> n, policies_by_slip |-> s, inward_by_contract |-> c ] :
        n \in (IF policies_ok THEN lookup_maps(st["policies"], "policyNumber")
               ELSE { EmptyMap }),
        s \in (IF policies_ok THEN lookup_maps(st["policies"], "slipNumber")
               ELSE { EmptyMap }),
        c \in (IF inward_ok THEN lookup_maps(st["inward_reinsurance"], "contract_number")
               ELSE { EmptyMap }) }

\* a match_parent whose inward branch falls back to the policy-number map
match_parent_inward_falls_back(source_type, slip_number, contract_number, policies_by_number, policies_by_slip, inward_by_contract) ==
    LET slip_key == lookup_key(slip_number)
        contract_key == lookup_key(contract_number)
    IN  IF slip_key # <<>> /\ slip_key \in DOMAIN inward_by_contract
           /\ source_type \in {"inward-foreign", "inward-domestic"}
        THEN << NoValue, <<inward_by_contract[slip_key]>> >>
        ELSE IF contract_key # <<>> /\ contract_key \in DOMAIN inward_by_contract
                /\ source_type \in {"inward-foreign", "inward-domestic"}
        THEN << NoValue, <<inward_by_contract[contract_key]>> >>
        ELSE IF source_type = "outward"
                /\ slip_key # <<>> /\ slip_key \in DOMAIN policies_by_slip
        THEN << <<policies_by_slip[slip_key]>>, NoValue >>
        ELSE IF source_type # "unknown"
                /\ contract_key # <<>> /\ contract_key \in DOMAIN policies_by_number
        THEN << <<policies_by_number[contract_key]>>, NoValue >>
        ELSE << NoValue, NoValue >>

\* a match_parent whose outward branch tries the contract number first
match_parent_contract_first(source_type, slip_number, contract_number, policies_by_number, policies_by_slip, inward_by_contract) ==
    LET slip_key == lookup_key(slip_number)
        contract_key == lookup_key(contract_number)
    IN  IF source_type \in {"inward-foreign", "inward-domestic"}
        THEN IF slip_key # <<>> /\ slip_key \in DOMAIN inward_by_contract
             THEN << NoValue, <<inward_by_contract[slip_key]>> >>
             ELSE IF contract_key # <<>> /\ contract_key \in DOMAIN inward_by_contract
             THEN << NoValue, <<inward_by_contract[contract_key]>> >>
             ELSE << NoValue, NoValue >>
        ELSE IF source_type \in {"direct", "outward"}
                /\ contract_key # <<>> /\ contract_key \in DOMAIN policies_by_number
        THEN << <<policies_by_number[contract_key]>>, NoValue >>
        ELSE IF source_type = "outward"
                /\ slip_key # <<>> /\ slip_key \in DOMAIN policies_by_slip
        THEN << <<policies_by_slip[slip_key]>>, NoValue >>
        ELSE << NoValue, NoValue >>

\* match_parent: <<policy_id, inward_id>>
match_parent(source_type, slip_number, contract_number, policies_by_number, policies_by_slip, inward_by_contract) ==
    LET slip_key == lookup_key(slip_number)
        contract_key == lookup_key(contract_number)
    IN  IF source_type \in {"inward-foreign", "inward-domestic"}
        THEN IF slip_key # <<>> /\ slip_key \in DOMAIN inward_by_contract
             THEN << NoValue, <<inward_by_contract[slip_key]>> >>
             ELSE IF contract_key # <<>> /\ contract_key \in DOMAIN inward_by_contract
             THEN << NoValue, <<inward_by_contract[contract_key]>> >>
             ELSE << NoValue, NoValue >>
        ELSE IF source_type = "direct"
        THEN IF contract_key # <<>> /\ contract_key \in DOMAIN policies_by_number
             THEN << <<policies_by_number[contract_key]>>, NoValue >>
             ELSE << NoValue, NoValue >>
        ELSE IF source_type = "outward"
        THEN IF slip_key # <<>> /\ slip_key \in DOMAIN policies_by_slip
             THEN << <<policies_by_slip[slip_key]>>, NoValue >>
             ELSE IF contract_key # <<>> /\ contract_key \in DOMAIN policies_by_number
             THEN << <<policies_by_number[contract_key]>>, NoValue >>
             ELSE << NoValue, NoValue >>
        ELSE << NoValue, NoValue >>

\* record[key] = value
SetKey(record, key, value) ==
    [k \in DOMAIN record \cup {key} |-> IF k = key THEN value ELSE record[k]]

\* parse_claim_row: <<claim, transactions>>; the claim is <<record>> or NoRecord
parse_claim_row(row, row_number, maps) ==
    LET col0 == get_cell_value(row, 0)
        source_type == determine_source_type(col0)
        claim_number_raw == get_cell_value(row, 3)
        slip_number == get_cell_value(row, 5)
        contract_number == get_cell_value(row, 13)
        our_share_percentage == percentage_of(number_cell(row, 25))
        reserve_fc == number_cell(row, 33)
        total_loss == number_cell(row, 35)
        paid_fc == number_cell(row, 40)
        exchange_rate == number_cell(row, 41)
        parent == match_parent(source_type, slip_number, contract_number,
                               maps.policies_by_number, maps.policies_by_slip,
                               maps.inward_by_contract)
        policy_id == parent[1]
        inward_id == parent[2]
        claim == [ claim_number |->
                       IF Truthy(claim_number_raw) THEN strip(claim_number_raw)
                       ELSE <<"I", "M", "P", "-", "C", "L", "M", "-">> \o <<Digit(row_number)>>,
                   source_type |-> source_type,
                   slip_number |-> text_cell(slip_number),
                   contract_number |-> text_cell(contract_number),
                   liability_type |->
                       IF Positive(reserve_fc) \/ Positive(paid_fc) THEN "ACTIVE"
                       ELSE "INFORMATIONAL",
                   is_deleted |-> FALSE ]
        claim1 == IF policy_id # NoValue THEN SetKey(claim, "policy_id", policy_id[1])
                  ELSE claim
        claim2 == IF inward_id # NoValue
                  THEN SetKey(claim1, "inward_reinsurance_id", inward_id[1])
                  ELSE claim1
        reserve == IF Positive(reserve_fc)
                   THEN << [ transaction_type |-> "RESERVE_SET",
                             amount_100pct |->
                                 IF total_loss # NoValue /\ total_loss[1] # 0
                                 THEN total_loss[1] ELSE reserve_fc[1],
                             exchange_rate |-> value_or(exchange_rate, 1),
                             our_share_percentage |->
                                 value_or(our_share_percentage, 100) ] >>
                   ELSE <<>>
        payment == IF Positive(paid_fc)
                   THEN << [ transaction_type |-> "PAYMENT",
                             amount_100pct |-> paid_fc[1],
                             exchange_rate |-> value_or(exchange_rate, 1),
                             our_share_percentage |->
                                 value_or(our_share_percentage, 100) ] >>
                   ELSE <<>>
    IN  IF source_type = "unknown" /\ ~Truthy(col0)
        THEN << NoRecord, <<>> >>
        ELSE << <<claim2>>, reserve \o payment >>

\* the row loop of main: claims and all_transactions after the rows from the
\* k-th on; data starts at row_idx 2, so the k-th data row has row_number k + 2
RECURSIVE parse_claims(_, _, _, _, _)
parse_claims(rows, k, maps, claims, transactions) ==
    IF k > Len(rows) THEN [claims |-> claims, all_transactions |-> transactions]
    ELSE LET parsed == parse_claim_row(rows[k], k + 2, maps)
             claim_idx == Len(claims)
         IN  IF parsed[1] = NoRecord
             THEN parse_claims(rows, k + 1, maps, claims, transactions)
             ELSE parse_claims(rows, k + 1, maps, claims \o parsed[1],
                      transactions \o [j \in 1..Len(parsed[2]) |->
                                           <<claim_idx, parsed[2][j]>>])

\* a transactions_to_insert that keeps the transactions of failed claims
RECURSIVE link_all_transactions(_, _)
link_all_transactions(transactions, id_map) ==
    IF transactions = <<>> THEN <<>>
    ELSE LET claim_idx == Head(transactions)[1]
             txn == Head(transactions)[2]
         IN  << IF claim_idx \in DOMAIN id_map
                THEN SetKey(txn, "claim_id", id_map[claim_idx])
                ELSE txn >> \o link_all_transactions(Tail(transactions), id_map)

\* transactions_to_insert: the transactions whose claim index has an id
RECURSIVE link_transactions(_, _)
link_transactions(transactions, id_map) ==
    IF transactions = <<>> THEN <<>>
    ELSE LET claim_idx == Head(transactions)[1]
             txn == Head(transactions)[2]
         IN  (IF claim_idx \in DOMAIN id_map
              THEN << SetKey(txn, "claim_id", id_map[claim_idx]) >>
              ELSE <<>>) \o link_transactions(Tail(transactions), id_map)

C_ForeignInward == <<"F", "o", "r", "e", "i", "g", "n", " ", "I", "n", "w", "a", "r", "d">>
C_Direct == <<"D", "i", "r", "e", "c", "t">>
C_LocalOutward == <<"L", "o", "c", "a", "l", " ", "O", "u", "t", "w", "a", "r", "d">>
C_Other == <<"O", "t", "h", "e", "r">>
K_C1Padded == SP \o K_C1 \o SP

\* the data rows of the claims sheet: column 0 source, 3 claim number, 5 slip,
\* 13 contract, 33 reserve, 40 paid
ClaimRows ==
    { (0 :> C_ForeignInward @@ 3 :> K_C2 @@ 5 :> K_C1Padded @@ 33 :> 5 @@ 40 :> 2),
      (0 :> C_Direct @@ 13 :> K_C1),
      (3 :> K_C1 @@ 33 :> 5) }

ClaimSheets == UNION { [1..n -> ClaimRows] : n \in 0..MaxRows }

----------------------------------------------------------------------------
(* main of import_claims.py *)

\* what the chunk loops of the claims importer leave alone
claims_frame ==
    << manifest, backup_files, tool, dry_run, batch_id, all_records, all_entities,
       new_entities, table_idx, count, preview, confirm, store0, sheets_to_process,
       skipped_count, all_transactions, error_records, pure_vars >>

\* main: the configuration and source file checks
import_claims_main ==
    \E dry \in BOOLEAN, setup_ok \in BOOLEAN :
        /\ Begin("claims")
        /\ dry_run' = dry
        /\ IF setup_ok THEN pc' = "cl_read" /\ exit_code' = "-"
           ELSE pc' = "done" /\ exit_code' = "exit1"
        /\ UNCHANGED << store, nextId, manifest, backup_files, batch_id, table_idx,
                        staging_vars, pure_vars >>

\* main steps 1-4: decrypt, open the workbook, connect, build_lookup_maps,
\* parse every row; a dry run writes claims_preview.json and returns
import_claims_read ==
    /\ pc = "cl_read"
    /\ \E source_ok \in BOOLEAN, policies_ok \in BOOLEAN, inward_ok \in BOOLEAN,
          rows \in ClaimSheets :
          IF ~source_ok
          THEN /\ pc' = "done"
               /\ exit_code' = "exit1"
               /\ UNCHANGED << all_records, all_transactions, preview, calls >>
          ELSE \E maps \in build_lookup_maps(store, policies_ok, inward_ok) :
                 LET parsed == parse_claims(rows, 1, maps, <<>>, <<>>)
                 IN  /\ calls' = [calls EXCEPT !.select = @ + 2]
                     /\ all_records' = parsed.claims
                     /\ all_transactions' = parsed.all_transactions
                     /\ preview' =
                           IF dry_run
                           THEN [ claims |-> Preview(parsed.claims, 20),
                                  transactions_sample |->
                                      Preview(parsed.all_transactions, 20) ]
                           ELSE preview
                     /\ IF dry_run \/ parsed.claims = <<>>
                        THEN pc' = "done" /\ exit_code' = "return"
                        ELSE pc' = "cl_chunk" /\ UNCHANGED exit_code
    /\ UNCHANGED << store, nextId, manifest, backup_files, tool, dry_run, batch_id,
                    all_entities, new_entities, chunk_start, row_in_chunk,
                    table_idx, count, counters, error_records, confirm, store0,
                    sheets_to_process, skipped_count, claim_id_map,
                    transactions_to_insert, pure_vars >>

\* a claim_id_map keyed by the position in the chunk instead of the position
\* in claims
store_claim_ids_per_chunk(id_map, first_idx, n, first_id) ==
    [ i \in DOMAIN id_map \cup 0..(n - 1) |->
        IF i \in 0..(n - 1) THEN first_id + i ELSE id_map[i] ]

\* claim_id_map[batch_start + i] = record["id"] for the n rows of result.data,
\* which the store returns in the order of the batch with the ids it gave them
store_claim_ids(id_map, first_idx, n, first_id) ==
    [ i \in DOMAIN id_map \cup first_idx..(first_idx + n - 1) |->
        IF i \in first_idx..(first_idx + n - 1) THEN first_id + (i - first_idx)
        ELSE id_map[i] ]

\* main between step 5 and step 6: transactions_to_insert is built when the
\* claims loop ends, and the transactions loop runs when it is not empty
end_of_claims(id_map) ==
    /\ claim_id_map' = id_map
    /\ IF pc' = "cl_linked"
       THEN transactions_to_insert' = link_transactions(all_transactions, id_map)
       ELSE UNCHANGED transactions_to_insert

\* main step 5: bulk insert of one chunk of claims; the ids of result.data
\* are recorded in claim_id_map
insert_claims ==
    /\ pc = "cl_chunk"
    /\ \E ok \in BOOLEAN :
          LET batch == Chunk(all_records, chunk_start)
          IN  /\ bulk_insert(ok, "claims", all_records, "inserted_claims",
                             "cl_chunk", "cl_rows", "cl_linked")
              /\ end_of_claims(IF ok
                               THEN store_claim_ids(claim_id_map, chunk_start,
                                                    Len(batch), nextId)
                               ELSE claim_id_map)
    /\ UNCHANGED << claims_frame, exit_code >>

\* main step 5: the row-by-row retry of a rejected chunk of claims
insert_claims_rows ==
    /\ pc = "cl_rows"
    /\ \E ok \in BOOLEAN :
          /\ row_insert(ok, "claims", all_records, "inserted_claims", "",
                        "cl_chunk", "cl_linked")
          /\ end_of_claims(IF ok
                           THEN store_claim_ids(claim_id_map,
                                                chunk_start + row_in_chunk - 1, 1, nextId)
                           ELSE claim_id_map)
    /\ UNCHANGED << claims_frame, exit_code >>

\* main step 6: bulk insert of one chunk of transactions_to_insert, or the
\* summary when there is none
insert_transactions ==
    /\ pc = "cl_linked"
    /\ IF transactions_to_insert = <<>>
       THEN /\ pc' = "done"
            /\ UNCHANGED << store, nextId, counters, calls, chunk_start, row_in_chunk >>
       ELSE \E ok \in BOOLEAN :
               bulk_insert(ok, "claim_transactions", transactions_to_insert,
                           "inserted_transactions", "cl_linked", "cl_txn_rows", "done")
    /\ exit_code' = IF pc' = "done" THEN "return" ELSE exit_code
    /\ UNCHANGED << claims_frame, claim_id_map, transactions_to_insert >>

\* main step 6: the row-by-row retry of a rejected chunk of transactions
insert_transactions_rows ==
    /\ pc = "cl_txn_rows"
    /\ \E ok \in BOOLEAN :
          row_insert(ok, "claim_transactions", transactions_to_insert,
                     "inserted_transactions", "", "cl_linked", "done")
    /\ exit_code' = IF pc' = "done" THEN "return" ELSE exit_code
    /\ UNCHANGED << claims_frame, claim_id_map, transactions_to_insert >>

Next ==
    \/ main_backup
    \/ create_backup
    \/ restore_from_backup_start
    \/ restore_from_backup_confirm
    \/ restore_from_backup_table
    \/ restore_from_backup_insert
    \/ rollback_batch_start
    \/ rollback_batch_count
    \/ rollback_batch_confirm
    \/ rollback_batch_delete
    \/ run_import_start
    \/ run_import_confirm
    \/ run_import_read
    \/ run_import_preview
    \/ run_import_check
    \/ run_import_entities
    \/ run_import_entity_rows
    \/ run_import_records
    \/ run_import_record_rows
    \/ import_all_sheets_main
    \/ process_sheet
    \/ import_sheet
    \/ import_sheet_rows
    \/ process_sheet_return
    \/ import_portfolio_main
    \/ import_portfolio_read
    \/ import_portfolio_insert
    \/ import_portfolio_rows
    \/ import_claims_main
    \/ import_claims_read
    \/ insert_claims
    \/ insert_claims_rows
    \/ insert_transactions
    \/ insert_transactions_rows

Spec == Init /\ [][Next]_vars

\* a tool that was started runs on: every store call returns or raises, and
\* the interpreter then takes the next step of the program
SpecFair == Spec /\ WF_vars(Next)

----------------------------------------------------------------------------
(* Studies of extract_legal_entities and of match_parent on their own *)

\* no tool runs: the store is empty and every local is as Locals0 leaves it
NoRun ==
    /\ store = StoreOf({}, {})
    /\ store0 = store
    /\ nextId = FirstId
    /\ manifest = NoManifest
    /\ backup_files = [t \in Range(BackupTables) |-> NoFile]
    /\ pc = "idle"
    /\ Locals0

\* the records handed to extract_legal_entities: the cedant, broker and
\* insured names repeat one another up to whitespace and across roles
ExtractRecords ==
    { [ cedant_name |-> c, broker_name |-> b, original_insured_name |-> i,
        territory |-> T_UK, cedant_country |-> cc, import_batch_id |-> NewBatch ] :
        c \in {N_AcmeInsurance2, N_UnknownCedant, N_MarshBroker},
        b \in {None, N_AcmeInsuranceP, N_MarshBroker},
        i \in {None, N_AcmeInsurance, N_MarshBroker},
        cc \in {None, T_Uzbekistan} }

InitExtract ==
    /\ NoRun
    /\ tool = "none"
    /\ fn_args \in UNION { [1..n -> ExtractRecords] : n \in 0..MaxRecords }
    /\ fn_result = <<>>

\* all_entities = extract_legal_entities(all_records)
call_extract_legal_entities ==
    /\ tool = "none"
    /\ tool' = "extract_legal_entities"
    /\ fn_result' = extract_legal_entities(fn_args)
    /\ UNCHANGED << store, nextId, manifest, backup_files, pc, dry_run, batch_id,
                    all_records, staging_vars, fn_args, all_entities,
                    new_entities, chunk_start, row_in_chunk, table_idx, count,
                    counters, error_records, exit_code, preview, confirm, calls,
                    store0 >>

NextExtract == call_extract_legal_entities

SpecExtract == InitExtract /\ [][NextExtract]_vars

\* the claim rows and lookup maps handed to parse_claim_row and match_parent
C_LocalInward == <<"L", "o", "c", "a", "l", " ", "I", "n", "w", "a", "r", "d">>
Identifiers == {None, K_C1, K_C1Padded, K_C2, N_Blank}
MatchRows ==
    { (0 :> source @@ 5 :> slip @@ 13 :> contract) :
        source \in {C_ForeignInward, C_LocalInward, C_Direct, C_LocalOutward,
                    C_Other, None},
        slip \in Identifiers, contract \in Identifiers }
MatchMaps ==
    { [ policies_by_number |-> n, policies_by_slip |-> s, inward_by_contract |-> c ] :
        n \in { EmptyMap, (lower(K_C1) :> 5) },
        s \in { EmptyMap, (lower(K_C1) :> 6), (K_C2 :> 6) },
        c \in { EmptyMap, (lower(K_C1) :> 3), (lower(K_C1) :> 3 @@ K_C2 :> 4) } }

InitMatch ==
    /\ NoRun
    /\ tool = "none"
    /\ fn_args \in { [row |-> r, maps |-> m] : r \in MatchRows, m \in MatchMaps }
    /\ fn_result = <<>>

\* claim, transactions = parse_claim_row(...), and the match_parent call it makes
call_parse_claim_row ==
    /\ tool = "none"
    /\ tool' = "parse_claim_row"
    /\ fn_result' =
          [ parent |-> match_parent(determine_source_type(get_cell_value(fn_args.row, 0)),
                                    get_cell_value(fn_args.row, 5),
                                    get_cell_value(fn_args.row, 13),
                                    fn_args.maps.policies_by_number,
                                    fn_args.maps.policies_by_slip,
                                    fn_args.maps.inward_by_contract),
            claim |-> parse_claim_row(fn_args.row, 3, fn_args.maps)[1] ]
    /\ UNCHANGED << store, nextId, manifest, backup_files, pc, dry_run, batch_id,
                    all_records, staging_vars, fn_args, all_entities,
                    new_entities, chunk_start, row_in_chunk, table_idx, count,
                    counters, error_records, exit_code, preview, confirm, calls,
                    store0 >>

NextMatch == call_parse_claim_row

SpecMatch == InitMatch /\ [][NextMatch]_vars

----------------------------------------------------------------------------
(* The transactions of parse_claim_row on their own *)

\* what a financial column can hold: nothing, zero, or a positive number
AmountCells(n) == { NoValue, <<0>>, <<n>> }

\* a claim row of the given financial cells: 25 our share (decimal), 33
\* reserve, 35 total loss, 40 paid, 41 exchange rate
FinancialRow(cells) ==
    LET cols == { c \in DOMAIN cells : cells[c] # NoValue }
    IN  (0 :> C_Direct) @@ [ c \in cols |-> cells[c][1] ]

TransactionRows ==
    { FinancialRow(25 :> share @@ 33 :> reserve @@ 35 :> total @@ 40 :> paid @@ 41 :> rate) :
        share \in AmountCells(1), reserve \in AmountCells(5), total \in AmountCells(7),
        paid \in AmountCells(2), rate \in AmountCells(3) }

InitTransactions ==
    /\ NoRun
    /\ tool = "none"
    /\ fn_args \in { [row |-> r, maps |-> m] : r \in TransactionRows, m \in MatchMaps }
    /\ fn_result = <<>>

\* claim, transactions = parse_claim_row(...)
call_parse_claim_row_transactions ==
    /\ tool = "none"
    /\ tool' = "transactions"
    /\ fn_result' = parse_claim_row(fn_args.row, 3, fn_args.maps)
    /\ UNCHANGED << store, nextId, manifest, backup_files, pc, dry_run, batch_id,
                    all_records, staging_vars, fn_args, all_entities,
                    new_entities, chunk_start, row_in_chunk, table_idx, count,
                    counters, error_records, exit_code, preview, confirm, calls,
                    store0 >>

NextTransactions == call_parse_claim_row_transactions

SpecTransactions == InitTransactions /\ [][NextTransactions]_vars

\* the serial numbers handed to parse_date: every whole number up to
\* MaxSerial and some from the range of the spreadsheets, each as an int and
\* as a float with and without a time of day, and their negatives
SpecialSerials == { 61, 366, 36526, 45657, 45658, 2958466 }
SerialCell(kind, whole) ==
    (IF kind \in {"negative"} THEN <<"#", "-">> ELSE <<"#">>)
        \o DigitsOfNat(whole)
        \o (CASE kind = "int" -> <<>>
              [] kind = "float" -> <<".", "0">>
              [] OTHER -> <<".", "7", "5">>)
SerialArgs ==
    { [ importer |-> i, value |-> SerialCell(k, w),
        days |-> IF k = "negative" THEN 0 - w ELSE w ] :
        i \in {"production", "all_sheets", "portfolio", "claims"},
        k \in {"int", "float", "time", "negative"},
        w \in (0..MaxSerial) \cup SpecialSerials }
    \cup { [ importer |-> i, value |-> v, days |-> 0 ] :
             i \in {"production", "all_sheets", "portfolio", "claims"},
             v \in {InfCell, NaNCell} }

InitDate ==
    /\ NoRun
    /\ tool = "none"
    /\ fn_args \in SerialArgs
    /\ fn_result = <<>>

\* record[field_name] = parse_date(value)
call_parse_date ==
    /\ tool = "none"
    /\ tool' = "parse_date"
    /\ fn_result' = << IF fn_args.importer = "claims"
                       THEN parse_date_claims(fn_args.value)
                       ELSE parse_date(fn_args.value) >>
    /\ UNCHANGED << store, nextId, manifest, backup_files, pc, dry_run, batch_id,
                    all_records, staging_vars, fn_args, all_entities,
                    new_entities, chunk_start, row_in_chunk, table_idx, count,
                    counters, error_records, exit_code, preview, confirm, calls,
                    store0 >>

NextDate == call_parse_date

SpecDate == InitDate /\ [][NextDate]_vars

\* the cells handed to parse_number: None, finite and non-finite numbers,
\* and texts with separators, glyphs, exponents and the spellings of inf
\* and nan
NumberTexts ==
    { <<"1", ",", "2", "3", "4", ".", "5", "0">>,
      <<"$", "1", "2", "3", "4", ".", "5", "0">>,
      <<"4", "5", "%">>,
      <<"-">>,
      <<>>,
      <<" ">>,
      <<"i", "n", "f">>,
      <<"-", "i", "n", "f">>,
      <<"n", "a", "n">>,
      <<"I", "n", "f", "i", "n", "i", "t", "y">>,
      <<"N", "a", "N", "%">>,
      <<"1", "e", "9", "9", "9">>,
      <<"-", "1", "e", "9", "9", "9">>,
      <<"1", "e", "3">>,
      <<"1", ".", "5", "e", "-", "2">>,
      <<"a", "b", "c">>,
      <<"1", ".", "2", ".", "3">>,
      <<"$", "i", ",", "n", " ", "f">>,
      <<".", "5">>,
      <<"1", "2", " ", "3", "4", "5">>,
      <<"1", NBSP, "0", "0", "0">>, <<EURO, "7">> }
NumberCells ==
    { None, InfCell, NegInfCell, NaNCell,
      <<"#", "1", "2", "3", "4", ".", "5">>,
      <<"#", "0", ".", "0">>,
      <<"#", "4", "5">>,
      <<"#", "-", "2", ".", "2", "5">> }
NumberArgs ==
    { [ importer |-> i, value |-> v ] :
        i \in {"production", "all_sheets", "portfolio", "claims"},
        v \in NumberTexts \cup NumberCells }

InitNumber ==
    /\ NoRun
    /\ tool = "none"
    /\ fn_args \in NumberArgs
    /\ fn_result = <<>>

\* record[field_name] = parse_number(value)
call_parse_number ==
    /\ tool = "none"
    /\ tool' = "parse_number"
    /\ fn_result' = << CASE fn_args.importer = "all_sheets" ->
                                parse_number_all_sheets(fn_args.value)
                         [] fn_args.importer = "claims" ->
                                parse_number_claims(fn_args.value)
                         [] OTHER -> parse_number(fn_args.value) >>
    /\ UNCHANGED << store, nextId, manifest, backup_files, pc, dry_run, batch_id,
                    all_records, staging_vars, fn_args, all_entities,
                    new_entities, chunk_start, row_in_chunk, table_idx, count,
                    counters, error_records, exit_code, preview, confirm, calls,
                    store0 >>

NextNumber == call_parse_number

SpecNumber == InitNumber /\ [][NextNumber]_vars

----------------------------------------------------------------------------
(* create_backup with every set of failing reads *)

\* main --backup has passed its configuration check; the store is one of the
\* initial stores and fn_args is the set of tables whose read will raise
InitBackup ==
    /\ store \in { st[1] : st \in InitStates }
    /\ store0 = store
    /\ nextId = FirstId
    /\ manifest = NoManifest
    /\ backup_files = [t \in Range(BackupTables) |-> NoFile]
    /\ Locals0
    /\ tool = "backup"
    /\ pc = "backup"
    /\ fn_args \in SUBSET Range(BackupTables)
    /\ fn_result = <<>>

NextBackup == create_backup_reads({fn_args})

SpecBackup == InitBackup /\ [][NextBackup]_vars

----------------------------------------------------------------------------
(* The row parsers on their own *)

\* the cells an identity column can hold: an empty cell, a text of blanks, the
\* number zero, another number and a text
IdentityCells == { None, N_Blank, ZeroCell, <<"#", "7">>, K_C1 }

\* the other columns of an inward row, the notes columns 2, 3 and 6 among
\* them: all empty, all usable, none usable, and zeroes
InwardExtras ==
    { <<>>,
      (2 :> N_Zed @@ 6 :> <<"#", "7">>
         @@ 11 :> N_Zed @@ 12 :> N_AcmeInsurance @@ 16 :> T_UK @@ 19 :> <<"e", "u", "r">>
         @@ 25 :> <<"#", "4", "5", "6", "5", "7">>
         @@ 26 :> <<"3", "1", ".", "1", "2", ".", "2", "0", "2", "5">>
         @@ 31 :> <<"x", "l">> @@ 32 :> <<"1", ",", "0", "0", "0">>
         @@ 39 :> <<"#", "5", "0", ".", "0">> @@ 41 :> <<"$", "2", "0">>),
      (2 :> N_Blank @@ 3 :> T_UK
         @@ 11 :> N_Blank @@ 12 :> ZeroCell @@ 16 :> T_Uzbekistan @@ 19 :> N_Blank
         @@ 25 :> <<"n", "/", "a">> @@ 26 :> InfCell @@ 31 :> N_Blank
         @@ 32 :> <<"-">> @@ 39 :> NaNCell @@ 41 :> <<"n", "/", "a">>),
      (25 :> ZeroCell @@ 26 :> <<"2", "0", "2", "5", "-", "0", "2", "-", "3", "0">>
         @@ 31 :> <<"#", "5", "0">> @@ 32 :> ZeroCell @@ 39 :> <<"#", "0">>
         @@ 41 :> InfCell) }

\* the identity columns of each row parser
IdentityColumns(parser) ==
    CASE parser = "contracts" -> <<1, 2>>
      [] parser = "outward" -> <<1, 3, 4>>
      [] parser = "slips" -> <<0>>
      [] OTHER -> <<5, 7, 1>>

\* the rows handed to a row parser: every choice of identity cells, with the
\* other columns of the sheet
NormalizerRows(parser) ==
    LET cols == IdentityColumns(parser)
        extras == IF parser \in {"production", "inward", "portfolio"}
                  THEN InwardExtras
                  ELSE { <<>>, (9 :> USD @@ 11 :> USD @@ 6 :> USD) }
    IN  { [ c \in Range(cols) |-> cells[IndexOf(cols, c)] ] @@ e :
            cells \in [1..Len(cols) -> IdentityCells], e \in extras }

RowParsers == {"production", "inward", "portfolio", "contracts", "outward", "slips"}

NormalizerArgs ==
    UNION { { [ parser |-> p, row |-> r ] : r \in NormalizerRows(p) } : p \in RowParsers }

InitNormalize ==
    /\ NoRun
    /\ tool = "none"
    /\ fn_args \in NormalizerArgs
    /\ fn_result = <<>>

\* record = parse_row(row, row_idx + 1, sheet_name, batch_id) and
\* record = parse_func(row, row_idx + 1)
call_parse_func ==
    /\ tool = "none"
    /\ tool' = "parse_func"
    /\ fn_result' = IF fn_args.parser = "production"
                    THEN parse_row(fn_args.row, 1, S_2024, NewBatch)
                    ELSE parse_func(fn_args.parser, fn_args.row, 1)
    /\ UNCHANGED << store, nextId, manifest, backup_files, pc, dry_run, batch_id,
                    all_records, staging_vars, fn_args, all_entities,
                    new_entities, chunk_start, row_in_chunk, table_idx, count,
                    counters, error_records, exit_code, preview, confirm, calls,
                    store0 >>

NextNormalize == call_parse_func

SpecNormalize == InitNormalize /\ [][NextNormalize]_vars

----------------------------------------------------------------------------
(* Commands of import_production.py run one after another *)

\* the batch id of a second live run: uuid4 gives every run an id of its own
LaterBatch == <<"b", "3">>

\* the commands that have returned: the tool and its batch id, in order
History == fn_args.history

\* the session starts with nothing run; fn_args keeps the store of the start
\* and the commands that have returned
InitSession ==
    /\ store \in { StoreOf({}, {}), StoreOf({Row(4, R_Untagged)}, {Row(1, E_Acme)}) }
    /\ store0 = store
    /\ fn_args = [ store |-> store, history |-> <<>> ]
    /\ fn_result = <<>>
    /\ nextId = FirstId
    /\ manifest = NoManifest
    /\ backup_files = [t \in Range(BackupTables) |-> NoFile]
    /\ tool = "none"
    /\ pc = "idle"
    /\ Locals0

\* the command has returned and the operator is back at the shell
command_returns ==
    /\ pc = "done"
    /\ Len(History) < MaxCommands - 1
    /\ pc' = "idle"
    /\ fn_args' = [fn_args EXCEPT !.history = Append(@, [tool |-> tool, batch_id |-> batch_id])]
    /\ UNCHANGED << store, nextId, manifest, backup_files, tool, dry_run, batch_id,
                    all_records, staging_vars, fn_result, all_entities,
                    new_entities, chunk_start, row_in_chunk, table_idx, count,
                    counters, error_records, exit_code, preview, confirm, calls,
                    store0 >>

\* --import: the first live run, run A
first_import == History = <<>> /\ run_import_start_as(NewBatch) /\ ~dry_run'

\* --import again: run B, after a run A of at most SessionRows records has
\* returned
second_import ==
    /\ Len(History) = 1
    /\ Len(all_records) <= SessionRows
    /\ run_import_start_as(LaterBatch)
    /\ ~dry_run'

\* --rollback with the batch id of run A
rollback_of_first ==
    /\ History # <<>>
    /\ rollback_batch_start
    /\ batch_id' = History[1].batch_id

\* run_import_read in a session: the workbook of run B gives at most
\* SessionRows records
session_read == run_import_read /\ (History # <<>> => Len(all_records') <= SessionRows)

NextSession ==
    \/ first_import
    \/ second_import
    \/ rollback_of_first
    \/ command_returns
    \/ create_backup
    \/ run_import_confirm
    \/ session_read
    \/ run_import_check
    \/ run_import_entities
    \/ run_import_entity_rows
    \/ run_import_records
    \/ run_import_record_rows
    \/ rollback_batch_count
    \/ rollback_batch_confirm
    \/ rollback_batch_delete

SpecSession == InitSession /\ [][NextSession]_vars

----------------------------------------------------------------------------
(* Two live runs of import_production.py against one store *)

\* the locals of the run in hand, as run_import holds them between two store
\* calls
Context ==
    [ pc |-> pc, batch_id |-> batch_id, all_records |-> all_records,
      all_entities |-> all_entities, new_entities |-> new_entities,
      chunk_start |-> chunk_start, row_in_chunk |-> row_in_chunk,
      counters |-> counters, error_records |-> error_records,
      exit_code |-> exit_code, calls |-> calls ]

\* the locals of a live run that has parsed its workbook and is about to call
\* check_existing_entities
ParsedContext(wb, batch) ==
    LET records == process_all_sheets(wb, batch)
    IN  [ pc |-> "ri_check", batch_id |-> batch, all_records |-> records,
          all_entities |-> extract_legal_entities(records),
          new_entities |-> <<>>, chunk_start |-> 0, row_in_chunk |-> 0,
          counters |-> ZeroCounters, error_records |-> <<>>,
          exit_code |-> "-", calls |-> NoCalls ]

\* the locals of the run in hand are those of context
Holds(context) ==
    /\ pc = context.pc
    /\ batch_id = context.batch_id
    /\ all_records = context.all_records
    /\ all_entities = context.all_entities
    /\ new_entities = context.new_entities
    /\ chunk_start = context.chunk_start
    /\ row_in_chunk = context.row_in_chunk
    /\ counters = context.counters
    /\ error_records = context.error_records
    /\ exit_code = context.exit_code
    /\ calls = context.calls

\* the run that waits while the other one steps
Waiting == fn_result

\* workbooks of one sheet with one data row
OneRowWorkbooks == { <<Sheet(S_2024, <<rw>>, TRUE)>> : rw \in RawRows }

\* two processes have been started with --import and confirmed, each with a
\* batch id of its own; both have parsed their workbook; run A is in hand
InitInterleaved ==
    /\ store \in { StoreOf({}, {}), StoreOf({Row(4, R_Untagged)}, {Row(1, E_Acme)}) }
    /\ store0 = store
    /\ nextId = FirstId
    /\ manifest = NoManifest
    /\ backup_files = [t \in Range(BackupTables) |-> NoFile]
    /\ tool = "import"
    /\ dry_run = FALSE
    /\ sheets_to_process = <<>>
    /\ skipped_count = 0
    /\ all_transactions = <<>>
    /\ claim_id_map = <<>>
    /\ transactions_to_insert = <<>>
    /\ table_idx = 0
    /\ count = 0
    /\ preview = <<>>
    /\ confirm = "yes"
    /\ \E wbA \in OneRowWorkbooks, wbB \in OneRowWorkbooks :
          /\ fn_args = [ A |-> wbA, B |-> wbB ]
          /\ Holds(ParsedContext(wbA, NewBatch))
          /\ fn_result = [ run |-> "B", locals |-> ParsedContext(wbB, LaterBatch) ]

\* the scheduler takes the processor from the run in hand, between two of its
\* store calls, and gives it to the run that waits
context_switch ==
    /\ Waiting.locals.pc # "done"
    /\ fn_result' = [ run |-> IF Waiting.run = "A" THEN "B" ELSE "A", locals |-> Context ]
    /\ pc' = Waiting.locals.pc
    /\ batch_id' = Waiting.locals.batch_id
    /\ all_records' = Waiting.locals.all_records
    /\ all_entities' = Waiting.locals.all_entities
    /\ new_entities' = Waiting.locals.new_entities
    /\ chunk_start' = Waiting.locals.chunk_start
    /\ row_in_chunk' = Waiting.locals.row_in_chunk
    /\ counters' = Waiting.locals.counters
    /\ error_records' = Waiting.locals.error_records
    /\ exit_code' = Waiting.locals.exit_code
    /\ calls' = Waiting.locals.calls
    /\ UNCHANGED << store, nextId, manifest, backup_files, tool, dry_run,
                    staging_vars, fn_args, table_idx, count, preview, confirm,
                    store0 >>

\* check_existing_entities of the run in hand, with a select that succeeds
checked_against_store ==
    /\ run_import_check
    /\ new_entities' = check_existing_entities(all_entities, Response(store["legal_entities"]))

NextInterleaved ==
    \/ context_switch
    \/ checked_against_store
    \/ run_import_entities
    \/ run_import_entity_rows
    \/ run_import_records
    \/ run_import_record_rows

SpecInterleaved == InitInterleaved /\ [][NextInterleaved]_vars

----------------------------------------------------------------------------
(* The warnings of the row parsers *)

\* the fields whose fallback import_portfolio.parse_row reports, in the order
\* of its checks
WARNED_FIELDS ==
    << "contract_number", "cedant_name", "type_of_cover", "class_of_cover",
       "inception_date", "expiry_date" >>

\* record.get(field) before the fallbacks: the normalized cell of the field
normalized(row, field) ==
    CASE field = "contract_number" -> text_cell(get_cell_value(row, 7))
      [] field = "cedant_name" -> text_cell(get_cell_value(row, 5))
      [] field = "currency" -> text_cell(get_cell_value(row, 19))
      [] field \in DOMAIN COVER_COLUMNS ->
             text_cell(get_cell_value(row, COVER_COLUMNS[field]))
      [] field \in DOMAIN DATE_COLUMNS ->
             parse_date(get_cell_value(row, DATE_COLUMNS[field]))
      [] field \in DOMAIN NUMERIC_COLUMNS ->
             parse_number(get_cell_value(row, NUMERIC_COLUMNS[field]))

\* the warnings list of import_portfolio.parse_row at its return: one
\* "Row {row_number}: Missing {field}, ..." per append
warnings(row, row_number) ==
    LET missing(field) == ~Truthy(normalized(row, field))
    IN  [ k \in 1..Len(SelectSeq(WARNED_FIELDS, missing)) |->
            [ row |-> row_number, field |-> SelectSeq(WARNED_FIELDS, missing)[k] ] ]

\* the warnings a row parser has recorded when it returns a record;
\* import_production.parse_row keeps no list of warnings and prints none
warnings_of(parser, row, row_number) ==
    IF parser = "portfolio" THEN warnings(row, row_number) ELSE <<>>

WarningParsers == {"production", "portfolio"}

InitWarnings ==
    /\ NoRun
    /\ tool = "none"
    /\ fn_args \in UNION { { [ parser |-> p, row |-> r ] : r \in NormalizerRows(p) } :
                            p \in WarningParsers }
    /\ fn_result = <<>>

\* record = parse_row(...), with the warnings the call recorded
call_parse_row ==
    /\ tool = "none"
    /\ tool' = "parse_row"
    /\ \E record \in { IF fn_args.parser = "production"
                        THEN parse_row(fn_args.row, 2, S_2024, NewBatch)
                        ELSE parse_portfolio_row(fn_args.row, 2) } :
          fn_result' = [ record |-> record,
                         warnings |-> IF record = NoRecord THEN <<>>
                                      ELSE warnings_of(fn_args.parser, fn_args.row, 2) ]
    /\ UNCHANGED << store, nextId, manifest, backup_files, pc, dry_run, batch_id,
                    all_records, staging_vars, fn_args, all_entities,
                    new_entities, chunk_start, row_in_chunk, table_idx, count,
                    counters, error_records, exit_code, preview, confirm, calls,
                    store0 >>

NextWarnings == call_parse_row

SpecWarnings == InitWarnings /\ [][NextWarnings]_vars

----------------------------------------------------------------------------
(* Properties of the production tool *)

\* the rows a run has added to a table, and the rows it has removed from it
Inserted(t) == store[t] \ store0[t]
Removed(t) == store0[t] \ store[t]

\* C1: rollback_batch(B) removes only rows of inward_reinsurance and
\* legal_entities whose import_batch_id equals B; every row with another batch
\* id or with none, and every row of every other table, stays in the store,
\* whatever is answered at the prompts and whichever store calls fail
C1_RollbackRemovesOnlyItsBatch ==
    tool = "rollback" =>
        \A t \in Tables :
            /\ Inserted(t) = {}
            /\ \A r \in Removed(t) :
                  t \in Range(RollbackTables) /\ RowBatch(r) = batch_id

\* a rollback that deleted rows of its batch from a table that also holds an
\* untagged row and a row of another batch
C1_Witness ==
    /\ tool = "rollback"
    /\ pc = "done"
    /\ Removed("inward_reinsurance") # {}
    /\ \E r \in store["inward_reinsurance"] : RowBatch(r) = None
    /\ \E r \in store["inward_reinsurance"] : RowBatch(r) \notin {None, batch_id}

\* C4: restore_from_backup issues no delete and no insert unless the
\* "Continue?" prompt was answered yes; after any other answer it returns
\* False and the store is as it was
C4_RestoreOnlyAfterYes ==
    tool = "restore" =>
        /\ (calls.delete + calls.insert > 0 \/ store # store0) => Affirmative(confirm)
        /\ (confirm # NotAsked /\ ~Affirmative(confirm)) =>
              (pc = "done" /\ exit_code = "False" /\ store = store0 /\ calls = NoCalls)

\* a restore of an existing backup that was declined at the prompt
C4_Witness ==
    /\ tool = "restore"
    /\ manifest # NoManifest
    /\ confirm = A_no
    /\ exit_code = "False"

\* C6: a live run of run_import inserts no entity whose normalized name is the
\* normalized name of an entity the store held when the run checked for
\* existing entities, also when that check's read fails
C6_NoPersistedEntityInsertedAgain ==
    tool = "import" =>
        \A r \in Inserted("legal_entities") :
            normalize_name(r.data.fullName)
                \notin existing_names_of(store0["legal_entities"])

----------------------------------------------------------------------------
(* Properties of the commit loops and of the importers *)

\* the records a chunk loop has dealt with, in bulk or one by one, when it
\* is at loop_pc or rows_pc
Attempted(loop_pc, rows_pc) ==
    IF pc = loop_pc THEN chunk_start
    ELSE IF pc = rows_pc THEN chunk_start + row_in_chunk - 1
    ELSE 0

\* the records the entity loop and the record loop of run_import have dealt with
EntitiesAttempted ==
    IF pc \in {"ri_records", "ri_record_rows", "done"} THEN Len(new_entities)
    ELSE Attempted("ri_entities", "ri_entity_rows")
RecordsAttempted ==
    IF pc = "done" THEN Len(all_records) ELSE Attempted("ri_records", "ri_record_rows")

\* import_sheet's counters while it runs; main has added them to its totals
\* once it has returned
InImportSheet == pc \in {"as_chunk", "as_rows", "as_return"}

AllInserted == UNION { Inserted(t) : t \in Tables }

\* C2: in the chunk loops of run_import, import_sheet and the portfolio
\* importer every record of a chunk the store rejected in bulk is inserted on
\* its own; at every point of a loop the inserted counter is the number of
\* rows the loop has stored, the error counter is the number of single-record
\* inserts the store rejected, and the two add up to the records dealt with,
\* so a chunk of n records with k rejected ones adds n - k rows and k errors
C2_FallbackCountsEveryRecord ==
    /\ tool = "import" =>
          /\ counters.entities_inserted = Cardinality(Inserted("legal_entities"))
          /\ counters.records_inserted = Cardinality(Inserted("inward_reinsurance"))
          /\ counters.entities_errors + counters.records_errors = calls.rejected
          /\ counters.entities_inserted + counters.entities_errors = EntitiesAttempted
          /\ counters.records_inserted + counters.records_errors = RecordsAttempted
    /\ tool = "all_sheets" =>
          /\ counters.total_inserted
                + (IF InImportSheet THEN counters.inserted_count ELSE 0)
                = (IF dry_run THEN counters.total_inserted
                   ELSE Cardinality(AllInserted))
          /\ counters.total_errors
                + (IF InImportSheet THEN counters.error_count ELSE 0)
                = calls.rejected
          /\ InImportSheet =>
                counters.inserted_count + counters.error_count
                    = (IF pc = "as_return" THEN Len(all_records)
                       ELSE Attempted("as_chunk", "as_rows"))
    /\ (tool = "portfolio" /\ ~dry_run) =>
          /\ counters.inserted_count = Cardinality(Inserted("inward_reinsurance"))
          /\ counters.error_count = calls.rejected
          /\ pc \in {"pf_chunk", "pf_rows"} =>
                counters.inserted_count + counters.error_count
                    = Attempted("pf_chunk", "pf_rows")
          /\ (pc = "done" /\ exit_code = "return") =>
                counters.inserted_count + counters.error_count = Len(all_records)

\* a live run_import whose only chunk of BATCH_SIZE records was rejected in
\* bulk and lost exactly one record in the row-by-row retry
C2_Witness ==
    /\ tool = "import"
    /\ pc = "done"
    /\ Len(all_records) = BATCH_SIZE
    /\ counters.records_errors = 1
    /\ counters.records_inserted = BATCH_SIZE - 1
    /\ Cardinality(Inserted("inward_reinsurance")) = BATCH_SIZE - 1

\* C3: a dry run of run_import, of import_sheet, of the claims importer or of
\* the portfolio importer issues no insert and no delete, and the store stays
\* as it was before the run
C3_DryRunWritesNothing ==
    dry_run => (store = store0 /\ calls.insert = 0 /\ calls.delete = 0)

\* a finished dry run of run_import that parsed records and wrote its preview
C3_Witness ==
    /\ tool = "dry_run"
    /\ dry_run
    /\ pc = "done"
    /\ exit_code = "return"
    /\ all_records # <<>>
    /\ preview.total_records = Len(all_records)

TopLevelTables == Tables \ {"claim_transactions"}
LiveImporters == {"import", "all_sheets", "portfolio", "claims"}

InsertedClaimIndexes ==
    { i \in 0..(Len(all_records) - 1) :
        \E c \in Inserted("claims") : c.data = all_records[i + 1]
                                       /\ i \in DOMAIN claim_id_map
                                       /\ c.id = claim_id_map[i] }

\* the claims loop is over
ClaimsLoopDone == pc \in {"cl_linked", "cl_txn_rows"} \/ (pc = "done" /\ exit_code = "return")

\* C10: in a live run of the claims importer the transactions of a claim whose
\* insert failed are not submitted, so none of them reaches
\* claim_transactions and no error is counted for them; every transaction of
\* an inserted claim is submitted with that claim's id
C10_TransactionsFollowTheirClaim ==
    (tool = "claims" /\ ~dry_run) =>
        /\ DOMAIN claim_id_map = InsertedClaimIndexes
        /\ Cardinality(Inserted("claims")) = counters.inserted_claims
        /\ Cardinality(DOMAIN claim_id_map) = counters.inserted_claims
        /\ \A r \in Inserted("claim_transactions") :
              /\ "claim_id" \in DOMAIN r.data
              /\ \E c \in Inserted("claims") : c.id = r.data.claim_id
        /\ counters.error_count = 0 /\ counters.total_errors = 0
        /\ error_records = <<>>
        /\ ClaimsLoopDone =>
              /\ Len(transactions_to_insert)
                    = Cardinality({ k \in 1..Len(all_transactions) :
                                      all_transactions[k][1] \in InsertedClaimIndexes })
              /\ \A k \in 1..Len(transactions_to_insert) :
                    \E j \in 1..Len(all_transactions) :
                       /\ all_transactions[j][1] \in InsertedClaimIndexes
                       /\ transactions_to_insert[k]
                             = SetKey(all_transactions[j][2], "claim_id",
                                      claim_id_map[all_transactions[j][1]])
        /\ (pc = "done" /\ exit_code = "return") =>
              counters.inserted_transactions
                  + (calls.rejected - (Len(all_records) - counters.inserted_claims))
                  = Len(transactions_to_insert)

\* a finished live run of the claims importer in which a claim that has
\* transactions failed and the transactions of another claim were inserted
C10_Witness ==
    /\ tool = "claims"
    /\ ~dry_run
    /\ pc = "done"
    /\ \E k \in 1..Len(all_transactions) :
          all_transactions[k][1] \notin DOMAIN claim_id_map
    /\ Inserted("claim_transactions") # {}

----------------------------------------------------------------------------
(* Properties of extract_legal_entities *)

\* the references of one record in processing order: cedant (the "Unknown
\* Cedant" placeholder is no reference), broker, insured
ReferencesOf(record) ==
    (IF Truthy(record.cedant_name) /\ record.cedant_name # N_UnknownCedant
     THEN << [ name |-> record.cedant_name, role |-> "cedant", record |-> record ] >>
     ELSE <<>>)
    \o (IF Truthy(record.broker_name)
        THEN << [ name |-> record.broker_name, role |-> "broker", record |-> record ] >>
        ELSE <<>>)
    \o (IF Truthy(record.original_insured_name)
        THEN << [ name |-> record.original_insured_name, role |-> "insured",
                  record |-> record ] >>
        ELSE <<>>)

RECURSIVE References(_)
References(records) ==
    IF records = <<>> THEN <<>>
    ELSE ReferencesOf(Head(records)) \o References(Tail(records))

\* whitespace-collapsed, trimmed name, written without split and join: drop
\* every space that follows a space or starts or ends the name
RECURSIVE Collapse(_)
Collapse(name) ==
    IF name = <<>> THEN <<>>
    ELSE IF Head(name) = SPACE /\ (Len(name) = 1 \/ name[2] = SPACE)
    THEN Collapse(Tail(name))
    ELSE <<Head(name)>> \o Collapse(Tail(name))
DedupKey(name) ==
    LET c == Collapse(name)
    IN  IF c # <<>> /\ Head(c) = SPACE THEN Tail(c) ELSE c

\* what the first reference to a key says about the entity
EntityOf(ref) ==
    [ fullName |-> strip(ref.name),
      type |-> IF ref.role = "insured" THEN "Insured"
               ELSE determine_entity_type(ref.name, ref.role = "cedant",
                                          ref.role = "broker"),
      country |-> IF ref.role = "broker" THEN None
                  ELSE IF ref.role = "cedant" /\ Truthy(ref.record.cedant_country)
                  THEN ref.record.cedant_country
                  ELSE ref.record.territory ]

\* C7: extract_legal_entities returns one entity for every dedup key that is
\* referenced and no two entities with the same key; names that differ only
\* in whitespace share a key; fullName, type and country of the entity are
\* those of the first reference to the key in processing order
C7_OneEntityPerKeyFirstWins ==
    tool = "extract_legal_entities" =>
        LET refs == References(fn_args)
            keys == { DedupKey(refs[k].name) : k \in 1..Len(refs) } \ { <<>> }
            First(key) == CHOOSE k \in 1..Len(refs) :
                             /\ DedupKey(refs[k].name) = key
                             /\ \A j \in 1..(k - 1) : DedupKey(refs[j].name) # key
        IN  /\ Len(fn_result) = Cardinality(keys)
            /\ \A a, b \in 1..Len(fn_result) :
                  a # b => DedupKey(fn_result[a].fullName) # DedupKey(fn_result[b].fullName)
            /\ \A e \in 1..Len(fn_result) :
                  LET key == DedupKey(fn_result[e].fullName)
                  IN  /\ key \in keys
                      /\ fn_result[e].fullName = EntityOf(refs[First(key)]).fullName
                      /\ fn_result[e].type = EntityOf(refs[First(key)]).type
                      /\ fn_result[e].country = EntityOf(refs[First(key)]).country

\* two records that reference one name with different whitespace and under
\* different roles: the cedant of the first comes back as broker and insured
C7_Witness ==
    /\ tool = "extract_legal_entities"
    /\ Len(fn_args) = 2
    /\ fn_args[1].cedant_name = N_AcmeInsurance2
    /\ fn_args[1].cedant_country = T_Uzbekistan
    /\ fn_args[2].broker_name = N_AcmeInsuranceP
    /\ fn_args[2].original_insured_name = N_AcmeInsurance
    /\ \E e \in 1..Len(fn_result) :
          /\ fn_result[e].fullName = N_AcmeInsurance2
          /\ fn_result[e].type = "Insurance Company"
          /\ fn_result[e].country = T_Uzbekistan

----------------------------------------------------------------------------
(* Properties of match_parent *)

ArgSource == determine_source_type(get_cell_value(fn_args.row, 0))
ArgSlip == get_cell_value(fn_args.row, 5)
ArgContract == get_cell_value(fn_args.row, 13)
IsInward == ArgSource \in {"inward-foreign", "inward-domestic"}

\* C8: for a claim of an inward source type match_parent returns no policy
\* id, and the claim gets no policy_id, whatever the policy maps hold
C8_InwardNeverGetsPolicy ==
    (tool = "parse_claim_row" /\ IsInward) =>
        /\ fn_result.parent[1] = NoValue
        /\ "policy_id" \notin DOMAIN fn_result.claim[1]

\* an inward claim whose slip number is a key of both policy maps and of no
\* inward contract
C8_Witness ==
    /\ tool = "parse_claim_row"
    /\ IsInward
    /\ lookup_key(ArgSlip) \in DOMAIN fn_args.maps.policies_by_number
    /\ lookup_key(ArgSlip) \in DOMAIN fn_args.maps.policies_by_slip
    /\ fn_args.maps.inward_by_contract = EmptyMap
    /\ fn_result.parent = << NoValue, NoValue >>

\* the lookups of a source type in priority order: which parent, which key,
\* which map
Lookups ==
    LET slip_key == lookup_key(ArgSlip)
        contract_key == lookup_key(ArgContract)
        maps == fn_args.maps
    IN  CASE IsInward ->
                << <<"inward", slip_key, maps.inward_by_contract>>,
                   <<"inward", contract_key, maps.inward_by_contract>> >>
          [] ArgSource = "direct" ->
                << <<"policy", contract_key, maps.policies_by_number>> >>
          [] ArgSource = "outward" ->
                << <<"policy", slip_key, maps.policies_by_slip>>,
                   <<"policy", contract_key, maps.policies_by_number>> >>
          [] OTHER -> <<>>

Hits == { k \in 1..Len(Lookups) :
            Lookups[k][2] # <<>> /\ Lookups[k][2] \in DOMAIN Lookups[k][3] }
FirstHit == CHOOSE k \in Hits : \A j \in Hits : k <= j

\* C9: match_parent returns the first hit of the lookups of the source type
\* in priority order, as policy id or as inward id and never both; without a
\* hit both are null; the claim carries the id under policy_id or
\* inward_reinsurance_id, and its slip_number and contract_number are the
\* trimmed identifiers of the row whether or not a parent was found
C9_MatchIsPriorityLookup ==
    tool = "parse_claim_row" =>
        LET parent == fn_result.parent
            found == IF Hits = {} THEN 0 ELSE Lookups[FirstHit][3][Lookups[FirstHit][2]]
        IN  /\ parent[1] = NoValue \/ parent[2] = NoValue
            /\ IF Hits = {} THEN parent = << NoValue, NoValue >>
               ELSE IF Lookups[FirstHit][1] = "policy"
               THEN parent = << <<found>>, NoValue >>
               ELSE parent = << NoValue, <<found>> >>
            /\ fn_result.claim # NoRecord =>
                  LET claim == fn_result.claim[1]
                  IN  /\ ("policy_id" \in DOMAIN claim) = (parent[1] # NoValue)
                      /\ ("inward_reinsurance_id" \in DOMAIN claim) = (parent[2] # NoValue)
                      /\ parent[1] # NoValue => claim.policy_id = parent[1][1]
                      /\ parent[2] # NoValue => claim.inward_reinsurance_id = parent[2][1]
                      /\ claim.slip_number
                            = (IF Truthy(ArgSlip) THEN strip(ArgSlip) ELSE None)
                      /\ claim.contract_number
                            = (IF Truthy(ArgContract) THEN strip(ArgContract) ELSE None)

\* an outward claim whose slip number hits the policy-slip map and whose
\* contract number hits the policy-number map under another id
C9_Witness ==
    /\ tool = "parse_claim_row"
    /\ ArgSource = "outward"
    /\ Cardinality(Hits) = 2
    /\ fn_args.maps.policies_by_slip[lookup_key(ArgSlip)]
          # fn_args.maps.policies_by_number[lookup_key(ArgContract)]
    /\ fn_result.parent = << <<fn_args.maps.policies_by_slip[lookup_key(ArgSlip)]>>, NoValue >>

----------------------------------------------------------------------------
(* Properties of parse_date *)

\* the Julian day number of a calendar date
JulianDay(date) ==
    LET a == IF date[2] <= 2 THEN 1 ELSE 0
        y == date[1] + 4800 - a
        m == date[2] + 12 * a - 3
    IN  date[3] + (153 * m + 2) \div 5 + 365 * y + y \div 4 - y \div 100
            + y \div 400 - 32045

\* text is the ten-character YYYY-MM-DD form of a calendar date that lies n
\* days after date (before it, for a negative n)
IsDateAfter(text, date, n) ==
    /\ text # None
    /\ Len(text) = 10
    /\ text[5] = "-"
    /\ text[8] = "-"
    /\ \A k \in {1, 2, 3, 4, 6, 7, 9, 10} : IsDigit(text[k])
    /\ LET y == NatOfDigits(SubSeq(text, 1, 4))
           m == NatOfDigits(SubSeq(text, 6, 7))
           d == NatOfDigits(SubSeq(text, 9, 10))
       IN  /\ m \in 1..12
           /\ d \in 1..DaysInMonth(y, m)
           /\ JulianDay(<<y, m, d>>) - JulianDay(date) = n

\* the serials of the study that are finite and give a date datetime can hold
InRange ==
    /\ fn_args.value \notin {InfCell, NaNCell}
    /\ fn_args.days < 50000
    /\ fn_args.days > 0 - 50000

ParsedDate == tool = "parse_date" /\ InRange

----------------------------------------------------------------------------
(* Properties of parse_number *)

\* C13: in every importer parse_number returns no infinite and no NaN value,
\* for a numeric cell and for a text alike, and gives None for "-" and ""
C13_NeverInfOrNaN ==
    tool = "parse_number" =>
        /\ fn_result[1] \notin {InfCell, NegInfCell, NaNCell}
        /\ fn_args.value \in {<<"-">>, <<>>} => fn_result[1] = None

----------------------------------------------------------------------------
(* Properties of the row parsers *)

\* a cell with nothing in it: no value, or a text that is empty once trimmed
IsEmptyCell(value) == value = None \/ (~IsNumber(value) /\ strip(value) = <<>>)

Parsed == tool = "parse_func"

\* C11: a row parser yields no record exactly when every identity column of
\* its sheet is empty, and a record as soon as one of them holds something
C11_RecordIffIdentityPresent ==
    Parsed =>
        (fn_result = NoRecord
            <=> \A c \in Range(IdentityColumns(fn_args.parser)) :
                    IsEmptyCell(get_cell_value(fn_args.row, c)))

\* an inward row parser has returned a record
InwardRecord ==
    /\ Parsed
    /\ fn_args.parser \in {"production", "inward", "portfolio"}
    /\ fn_result # NoRecord

RequiredFields ==
    { "contract_number", "cedant_name", "type_of_cover", "class_of_cover",
      "inception_date", "expiry_date", "currency", "limit_of_liability",
      "gross_premium", "our_share" }

\* C15: every record an inward row parser returns has each required field
\* present, non-null and non-empty, its structure PROPORTIONAL or
\* NON_PROPORTIONAL and its origin DOMESTIC or FOREIGN
C15_RequiredFieldsPopulated ==
    InwardRecord =>
        LET record == fn_result[1]
        IN  /\ \A f \in RequiredFields :
                  /\ f \in DOMAIN record
                  /\ record[f] # None
                  /\ record[f] # <<>>
            /\ record.structure \in {"PROPORTIONAL", "NON_PROPORTIONAL"}
            /\ record.origin \in {"DOMESTIC", "FOREIGN"}

\* a record built from a row with one identity cell and nothing usable in the
\* other columns: every fallback has been applied
C15_Witness ==
    /\ InwardRecord
    /\ get_cell_value(fn_args.row, 32) = <<"-">>
    /\ get_cell_value(fn_args.row, 7) = None
    /\ fn_result[1].cedant_name = N_UnknownCedant
    /\ fn_result[1].type_of_cover = <<"P", "r", "o", "p", "e", "r", "t", "y">>
    /\ fn_result[1].inception_date = <<"2", "0", "2", "6", "-", "0", "1", "-", "1", "5">>
    /\ fn_result[1].expiry_date = <<"2", "0", "2", "7", "-", "0", "1", "-", "1", "5">>
    /\ fn_result[1].currency = USD
    /\ fn_result[1].limit_of_liability = <<"#", "0">>
    /\ fn_result[1].our_share \in { <<"#", "1", "0", "0">>, NaNCell }
    /\ fn_result[1].structure = "PROPORTIONAL"
    /\ fn_result[1].origin = "DOMESTIC"

----------------------------------------------------------------------------
(* Properties of the entity classification *)

\* the classification rules in their stated priority, for a name and the role
\* it was extracted in
Classify(name, role) ==
    IF role = "broker" \/ Contains(lower(name), <<"b", "r", "o", "k", "e", "r">>)
    THEN "Broker"
    ELSE IF Contains(lower(name), <<"i", "n", "s", "u", "r", "a", "n", "c">>)
    THEN "Insurance Company"
    ELSE IF Contains(lower(name), <<"r", "e", "i", "n", "s", "u", "r">>)
    THEN "Reinsurer"
    ELSE IF role = "cedant" THEN "Insurance Company"
    ELSE IF role = "insured" THEN "Insured"
    ELSE "Other"

\* C14: the type of every extracted entity is what the rules give for the
\* name and role of the first reference to it, whatever that role is; an
\* insured whose name holds a broker keyword is a Broker
C14_ClassifiedByPriorityInEveryRole ==
    tool = "extract_legal_entities" =>
        LET refs == References(fn_args)
            First(key) == CHOOSE k \in 1..Len(refs) :
                             /\ DedupKey(refs[k].name) = key
                             /\ \A j \in 1..(k - 1) : DedupKey(refs[j].name) # key
        IN  \A e \in 1..Len(fn_result) :
                LET ref == refs[First(DedupKey(fn_result[e].fullName))]
                IN  fn_result[e].type = Classify(ref.name, ref.role)

----------------------------------------------------------------------------
(* Properties of the setup failures *)

\* the run was ended by sys.exit(1) or by an exception that nothing caught
Aborted == pc = "done" /\ exit_code \in {"exit1", "raise"}

\* C16: a run that a setup or source-read failure has ended has issued no
\* insert and no delete before it
C16_NoWriteBeforeSetupAbort ==
    Aborted => calls.insert = 0 /\ calls.delete = 0

----------------------------------------------------------------------------
(* Properties of the commit loops: order, termination and final counts *)

\* the chunk loops of run_import and import_sheet: the position of the bulk
\* insert and of the row-by-row retry
CommitLoops ==
    { [ chunk |-> "ri_entities", rows |-> "ri_entity_rows" ],
      [ chunk |-> "ri_records", rows |-> "ri_record_rows" ],
      [ chunk |-> "as_chunk", rows |-> "as_rows" ] }

InLoop(l) == pc \in {l.chunk, l.rows}

\* the records a loop was given
Submitted(l) == IF l.chunk = "ri_entities" THEN new_entities ELSE all_records

\* the chunk in hand is finished: bulk insert accepted, or its last row retried
ChunkFinished(l) ==
    pc = l.rows => row_in_chunk = Len(Chunk(Submitted(l), chunk_start))

\* one step of a loop: the next row of the chunk in hand, the chunk that
\* follows it, or out of the loop after the last chunk
LoopStep(l) ==
    /\ InLoop(l) =>
          \/ /\ pc' = l.rows
             /\ chunk_start' = chunk_start
             /\ row_in_chunk' = (IF pc = l.chunk THEN 1 ELSE row_in_chunk + 1)
             /\ row_in_chunk' <= Len(Chunk(Submitted(l), chunk_start))
          \/ /\ pc' = l.chunk
             /\ ChunkFinished(l)
             /\ chunk_start' = chunk_start + BATCH_SIZE
             /\ chunk_start' < Len(Submitted(l))
          \/ /\ pc' \notin {l.chunk, l.rows}
             /\ ChunkFinished(l)
             /\ chunk_start + BATCH_SIZE >= Len(Submitted(l))
    /\ (~InLoop(l) /\ pc' \in {l.chunk, l.rows}) =>
          (pc' = l.chunk /\ chunk_start' = 0 /\ Submitted(l)' # <<>>)

\* a is b with some of its elements left out
RECURSIVE IsSubSeq(_, _)
IsSubSeq(a, b) ==
    IF a = <<>> THEN TRUE
    ELSE IF b = <<>> THEN FALSE
    ELSE IF Head(a) = Head(b) THEN IsSubSeq(Tail(a), Tail(b))
    ELSE IsSubSeq(a, Tail(b))

\* the records of the n rows a table gained last, in the order of their ids
LastGained(t, n) ==
    LET rows == SortById(Inserted(t))
    IN  [k \in 1..n |-> rows[Len(rows) - n + k].data]

\* what holds when the loops of a tool have ended
LoopsEnded ==
    /\ (tool = "import" /\ pc = "done" /\ exit_code = "return") =>
          /\ counters.entities_inserted + counters.entities_errors = Len(new_entities)
          /\ counters.records_inserted + counters.records_errors = Len(all_records)
          /\ counters.entities_inserted = Cardinality(Inserted("legal_entities"))
          /\ counters.records_inserted = Cardinality(Inserted("inward_reinsurance"))
          /\ IsSubSeq(LastGained("legal_entities", counters.entities_inserted),
                      new_entities)
          /\ IsSubSeq(LastGained("inward_reinsurance", counters.records_inserted),
                      all_records)
    /\ (tool = "all_sheets" /\ pc = "as_return") =>
          /\ counters.inserted_count + counters.error_count = Len(all_records)
          /\ counters.total_inserted + counters.inserted_count
                = Cardinality(AllInserted)
          /\ IsSubSeq(LastGained(table_name(Head(sheets_to_process)),
                                 counters.inserted_count),
                      all_records)

\* C17: each commit loop starts at the first chunk, deals with the chunks in
\* order whatever the store rejects, leaves only after the last chunk, and
\* does leave; when it has, inserted + errors is the number of records
\* submitted, inserted is the number of rows the store gained, and the rows
\* gained are records of the loop, each at most once and in their order
C17_LoopsAttemptEveryChunkAndEnd ==
    /\ []LoopsEnded
    /\ [][\A l \in CommitLoops : LoopStep(l)]_vars
    /\ \A l \in CommitLoops : (InLoop(l) ~> ~InLoop(l))

\* a live run_import that has ended with more records than one chunk holds:
\* the first chunk was rejected and lost a record in the retry, and the chunk
\* after it was still inserted
C17_Witness ==
    /\ tool = "import"
    /\ pc = "done"
    /\ exit_code = "return"
    /\ Len(all_records) > BATCH_SIZE
    /\ counters.records_errors = 1
    /\ counters.records_inserted = Len(all_records) - 1
    /\ calls.rejected = 1
    /\ \E r \in Inserted("inward_reinsurance") :
          r.data = all_records[Len(all_records)]

----------------------------------------------------------------------------
(* Properties of the claim ids of the transactions *)

LiveClaims == tool = "claims" /\ ~dry_run

\* claim_id_map against the store: the claim at each recorded position is in
\* the claims table under the recorded id, no id is recorded twice, the ids
\* grow with the positions, and nothing else was inserted
ClaimIdsAreStoreIds ==
    /\ \A i \in DOMAIN claim_id_map :
          /\ i \in 0..(Len(all_records) - 1)
          /\ Row(claim_id_map[i], all_records[i + 1]) \in Inserted("claims")
    /\ \A i, j \in DOMAIN claim_id_map : i < j => claim_id_map[i] < claim_id_map[j]
    /\ Cardinality(Inserted("claims")) = Cardinality(DOMAIN claim_id_map)

\* a transaction row is the transaction parsed with the claim at some position,
\* under the id of that claim
LinkedToItsClaim(r) ==
    \E k \in 1..Len(all_transactions) :
        LET claim_idx == all_transactions[k][1]
        IN  /\ claim_idx \in DOMAIN claim_id_map
            /\ r.data = SetKey(all_transactions[k][2], "claim_id",
                                claim_id_map[claim_idx])

\* every transaction row a step inserts names a claim row that is already there
InsertedAfterItsClaim ==
    LiveClaims =>
        \A r \in store'["claim_transactions"] \ store["claim_transactions"] :
            \E c \in Inserted("claims") : c.id = r.data.claim_id

\* C18: every row of claim_transactions carries the store's id of the claim
\* row parsed from the same sheet row, for claims inserted in bulk and one by
\* one and in any chunk, and is inserted when that claim row is in the store
C18_TransactionCarriesIdOfItsClaim ==
    /\ [](LiveClaims =>
            /\ ClaimIdsAreStoreIds
            /\ \A r \in Inserted("claim_transactions") : LinkedToItsClaim(r))
    /\ [][InsertedAfterItsClaim]_vars

\* a finished run in which the first chunk of claims was rejected in bulk, its
\* first claim was lost and its second inserted on its own, so ids and
\* positions differ, and a transaction of a claim of the second chunk is stored
C18_Witness ==
    /\ LiveClaims
    /\ pc = "done"
    /\ 0 \notin DOMAIN claim_id_map
    /\ 1 \in DOMAIN claim_id_map
    /\ \E k \in 1..Len(all_transactions) :
          /\ all_transactions[k][1] >= BATCH_SIZE
          /\ all_transactions[k][1] \in DOMAIN claim_id_map
          /\ \E r \in Inserted("claim_transactions") :
                r.data = SetKey(all_transactions[k][2], "claim_id",
                                claim_id_map[all_transactions[k][1]])

----------------------------------------------------------------------------
(* Properties of create_backup and restore_from_backup *)

BackupDone == tool = "backup" /\ pc = "done" /\ exit_code = "return"

\* C20: whichever reads raise, the manifest create_backup writes has one
\* entry per table of BackupTables: count 0 and the error for a table whose
\* read raised, else the number of rows read and the file that holds them; a
\* failed read keeps no later table from its snapshot, and the store is not
\* written
C20_ManifestHasEveryTable ==
    BackupDone =>
        /\ DOMAIN manifest.tables = 1..Len(BackupTables)
        /\ \A k \in 1..Len(BackupTables) :
              LET table == BackupTables[k]
                  info == manifest.tables[k]
              IN  IF table \in fn_args
                  THEN /\ info = [count |-> 0, error |-> "error"]
                       /\ ~backup_files[table].exists
                  ELSE /\ DOMAIN info = {"count", "file"}
                       /\ info.count = Cardinality(store0[table])
                       /\ info.file = table
                       /\ backup_files[table] = [exists |-> TRUE, rows |-> store0[table]]
        /\ store = store0
        /\ calls.insert = 0
        /\ calls.delete = 0
        /\ calls.select = Len(BackupTables)

\* a backup in which the reads of the first and the fourth table raised and
\* the rows of the second table were still written
C20_Witness ==
    /\ BackupDone
    /\ fn_args = {"inward_reinsurance", "claims"}
    /\ manifest.tables[2].count > 0
    /\ backup_files["legal_entities"].rows = store["legal_entities"]
    /\ "file" \in DOMAIN manifest.tables[5]

\* a confirmed restore has ended on a failed delete, load or insert; table_idx
\* is the table it failed on
RestoreFailed ==
    /\ tool = "restore"
    /\ pc = "done"
    /\ exit_code = "False"
    /\ Affirmative(confirm)

\* the manifest has no error for the k-th table and its file is there
Restorable(k) ==
    /\ "error" \notin DOMAIN manifest.tables[k]
    /\ backup_files[BackupTables[k]].exists

\* C19: a restore that failed on one table has left no later table of the
\* manifest that has a snapshot unrestored
C19_RestoreFailureIsolated ==
    RestoreFailed =>
        \A k \in (table_idx + 1)..Len(BackupTables) : ~Restorable(k)

----------------------------------------------------------------------------
(* Properties of the prompts of rollback_batch *)

\* the table the current pass of rollback_batch's loop deals with
RollbackTable == RollbackTables[table_idx]

\* the step issues a delete or changes the store
Deletes == calls'.delete # calls.delete \/ store' # store

\* the step leaves the pass of the current table for the next table, which is
\* counted when there is one
SkipsToNextTable ==
    /\ ~Deletes
    /\ table_idx' = table_idx + 1
    /\ pc' = IF table_idx < Len(RollbackTables) THEN "rb_count" ELSE "done"

\* what C21 says of one step of rollback_batch
GatedByPrompt ==
    (tool = "rollback" /\ pc # "done") =>
        /\ Deletes =>
              /\ pc = "rb_delete"
              /\ Affirmative(confirm)
              /\ count = count_eq_batch(store, RollbackTable, batch_id)
              /\ count # 0
              /\ \A t \in Tables \ {RollbackTable} : store'[t] = store[t]
        /\ pc' = "rb_delete" =>
              pc = "rb_confirm" /\ Affirmative(confirm') /\ table_idx' = table_idx
        /\ (pc = "rb_confirm" /\ ~Affirmative(confirm')) => SkipsToNextTable
        /\ (pc = "rb_count" /\ count_eq_batch(store, RollbackTable, batch_id) = 0) =>
              SkipsToNextTable /\ confirm' = confirm
        /\ pc' = "rb_confirm" =>
              /\ pc = "rb_count"
              /\ table_idx' = table_idx
              /\ count' = count_eq_batch(store, RollbackTable, batch_id)
              /\ count' # 0

\* C21: rollback_batch issues a delete on a table only after the prompt for
\* that table was answered yes; any other answer skips that table only, and
\* the next table is still counted and prompted; a table with no row of the
\* batch is neither prompted nor deleted from
C21_DeleteOnlyAfterYesPerTable == [][GatedByPrompt]_vars

\* a rollback that deleted the rows of the first table after a yes and was
\* then prompted for the second table, which it left alone after a no
C21_Witness ==
    /\ tool = "rollback"
    /\ pc = "done"
    /\ Removed("inward_reinsurance") # {}
    /\ confirm = A_no
    /\ count_eq_batch(store, "legal_entities", batch_id) # 0

----------------------------------------------------------------------------
(* Properties of the totals of a dry run *)

\* the number of chunks of a commit loop over n records
Chunks(n) == (n + BATCH_SIZE - 1) \div BATCH_SIZE

\* no store call of the live run has failed: every read of create_backup and
\* the read of check_existing_entities gave its rows, and every chunk was
\* accepted at the first attempt
NoStoreCallFailed ==
    /\ \A k \in DOMAIN manifest.tables : "error" \notin DOMAIN manifest.tables[k]
    /\ new_entities = check_existing_entities(all_entities, Response(store0["legal_entities"]))
    /\ calls.rejected = 0
    /\ calls.insert = Chunks(Len(new_entities)) + Chunks(Len(all_records))

LiveRunWithoutFailure ==
    /\ tool = "import"
    /\ pc = "done"
    /\ exit_code = "return"
    /\ NoStoreCallFailed

\* what a dry run over the workbook of this run reports: process_all_sheets
\* and extract_legal_entities do not look at dry_run, so that the dry run has
\* the all_records and all_entities of the live run
DryRunTotals == stats(batch_id, all_records, all_entities)

RecordsAsReported ==
    LiveRunWithoutFailure =>
        Cardinality(Inserted("inward_reinsurance")) = DryRunTotals.total_records

EntitiesAsReported ==
    LiveRunWithoutFailure =>
        Cardinality(Inserted("legal_entities")) = DryRunTotals.total_entities

\* C22: for the same workbook and the same store, the total records and the
\* total entities a dry run reports are the numbers of records and of
\* entities that a live run inserts when no store call fails
C22_DryRunTotalsAreLiveInserts == RecordsAsReported /\ EntitiesAsReported

----------------------------------------------------------------------------
(* Properties of the fallbacks of parse_claim_row *)

\* the transactions parse_claim_row returned
Transactions == { fn_result[2][k] : k \in DOMAIN fn_result[2] }

\* the share percentage and the exchange rate that were parsed from the row
ParsedShare == percentage_of(number_cell(fn_args.row, 25))
ParsedRate == number_cell(fn_args.row, 41)

\* C23: a fallback is applied only to a field that is null after
\* normalization: a share percentage or an exchange rate that was parsed,
\* the value 0 included, is the one every transaction of the row carries, and
\* 100 and 1 are used for a null only
C23_FallbackOnlyForNull ==
    tool = "transactions" =>
        \A txn \in Transactions :
            /\ txn.our_share_percentage =
                  (IF ParsedShare = NoValue THEN 100 ELSE ParsedShare[1])
            /\ txn.exchange_rate = (IF ParsedRate = NoValue THEN 1 ELSE ParsedRate[1])

----------------------------------------------------------------------------
(* Properties of the warnings of the row parsers *)

\* the fields a row parser gives a default to when they are null
FallbackFields ==
    { WARNED_FIELDS[k] : k \in DOMAIN WARNED_FIELDS }
        \cup {"currency"} \cup DOMAIN NUMERIC_COLUMNS

\* the fields of the row in hand that were null after normalization, so that
\* their fallback was applied; the numeric ones are null for None only
FallbacksApplied ==
    { f \in FallbackFields :
        IF f \in DOMAIN NUMERIC_COLUMNS THEN normalized(fn_args.row, f) = None
        ELSE ~Truthy(normalized(fn_args.row, f)) }

\* C24: when a row parser returns a record, it has recorded one warning of
\* that row for every fallback it applied, and nothing else
C24_OneWarningPerFallback ==
    (tool = "parse_row" /\ fn_result.record # NoRecord) =>
        /\ Len(fn_result.warnings) = Cardinality(FallbacksApplied)
        /\ \A k \in DOMAIN fn_result.warnings :
              /\ fn_result.warnings[k].row = 2
              /\ fn_result.warnings[k].field \in FallbacksApplied

----------------------------------------------------------------------------
(* Properties of the text fields of the records *)

\* the text fields of the record each row parser builds
TextFields(parser) ==
    CASE parser = "contracts" -> {"policyNumber", "insuredName", "currency"}
      [] parser = "outward" ->
             {"policyNumber", "slipNumber", "insuredName", "reinsurerName", "currency"}
      [] parser = "slips" -> {"slipNumber", "insuredName", "brokerReinsurer", "currency"}
      [] OTHER -> {"original_insured_name", "broker_name", "cedant_name",
                   "contract_number", "territory", "currency", "cedant_country",
                   "type_of_cover", "class_of_cover", "notes"}

\* null, or a non-empty text without leading or trailing whitespace
IsTrimmedOrNull(value) == value = None \/ (value # <<>> /\ strip(value) = value)

\* text.split(sep) for a separator of any length
RECURSIVE SplitBy(_, _)
SplitBy(text, sep) ==
    IF ~Contains(text, sep) THEN <<text>>
    ELSE LET k == CHOOSE i \in 1..Len(text) :
                     /\ SubSeq(text, i, i + Len(sep) - 1) = sep
                     /\ \A j \in 1..(i - 1) : SubSeq(text, j, j + Len(sep) - 1) # sep
         IN  <<SubSeq(text, 1, k - 1)>> \o SplitBy(SubSeq(text, k + Len(sep), Len(text)), sep)

\* no segment between the " | " separators is empty
HasNoEmptySegment(notes) ==
    notes = None \/ \A k \in DOMAIN SplitBy(notes, <<" ", "|", " ">>) :
                       SplitBy(notes, <<" ", "|", " ">>)[k] # <<>>

TextFieldsTrimmedOrNull ==
    (tool = "parse_func" /\ fn_result # NoRecord) =>
        \A f \in TextFields(fn_args.parser) : IsTrimmedOrNull(fn_result[1][f])

NotesHaveNoEmptySegment ==
    (tool = "parse_func" /\ fn_result # NoRecord /\ "notes" \in DOMAIN fn_result[1]) =>
        HasNoEmptySegment(fn_result[1].notes)

\* C25: every text field of a normalized record is null or a non-empty text
\* with no whitespace at either end (a cell of whitespace gives null), and the
\* notes have no empty segment between their " | " separators
C25_TextFieldsTrimmedOrNull == TextFieldsTrimmedOrNull /\ NotesHaveNoEmptySegment

----------------------------------------------------------------------------
(* Properties of the backup and the prompt of a live run_import *)

\* create_backup has completed in this run: its selects were issued and the
\* manifest and the files on disk are a snapshot of the store as it was
SnapshotTaken ==
    /\ calls.select >= Len(BackupTables)
    /\ \E failed \in ReadFailures :
          /\ manifest = manifest_of(store0, failed)
          /\ backup_files = files_of(store0, failed)

InsertsAfterBackupAndYes ==
    (tool = "import" /\ (calls.insert > 0 \/ store # store0)) =>
        SnapshotTaken /\ Affirmative(confirm)

DeclinedRunLeavesStore ==
    (tool = "import" /\ confirm # NotAsked /\ ~Affirmative(confirm)) =>
        /\ pc = "done"
        /\ exit_code = "exit0"
        /\ store = store0
        /\ calls.insert = 0

\* the prompt is put only when create_backup has returned
PromptAfterBackup == (tool = "import" /\ confirm' # confirm) => SnapshotTaken

\* C26: a live run_import issues no insert before create_backup has
\* completed and the proceed prompt was answered yes; after any other answer
\* the run ends and the store is as it was
C26_NoInsertBeforeBackupAndYes ==
    /\ [](InsertsAfterBackupAndYes /\ DeclinedRunLeavesStore)
    /\ [][PromptAfterBackup]_vars

\* a live run that inserted records after the answer YES
C26_Witness ==
    /\ tool = "import"
    /\ confirm = A_YES
    /\ Inserted("inward_reinsurance") # {}
    /\ SnapshotTaken

----------------------------------------------------------------------------
(* Properties of the tables restore_from_backup has deleted from *)

\* restore_from_backup has returned
RestoreReturned == tool = "restore" /\ pc = "done" /\ exit_code \in {"True", "False"}

\* the rows of the snapshot file of a table
SnapshotRows(t) == backup_files[t].rows

\* C27: when restore_from_backup returns, True or False, every table whose
\* rows it has deleted holds exactly the rows of the snapshot: none is left
\* empty or partly restored.  A table whose contents differ from those at the
\* start is one the run has deleted from
C27_DeletedTableHoldsSnapshot ==
    RestoreReturned =>
        \A t \in Range(BackupTables) :
            store[t] # store0[t] => store[t] = SnapshotRows(t)

----------------------------------------------------------------------------
(* Properties of a rollback that follows live runs *)

\* the rollback of run A's batch has returned, the n-th command of the session
RollbackOfFirstDone(n) ==
    /\ Len(History) = n - 1
    /\ \A k \in 1..(n - 1) : History[k].tool = "import"
    /\ tool = "rollback"
    /\ pc = "done"
    /\ batch_id = History[1].batch_id

\* the rollback has removed every row of its batch: each table that held such
\* rows was counted, its prompt was answered yes and its delete went through
BatchRemoved ==
    \A t \in Range(RollbackTables) : count_eq_batch(store, t, batch_id) = 0

ReferencedKeys(record) ==
    { normalize_name(record[f]) :
        f \in { g \in {"cedant_name", "broker_name", "original_insured_name"} :
                  /\ g \in DOMAIN record
                  /\ Truthy(record[g])
                  /\ record[g] # N_UnknownCedant } }

\* the dedup keys of the rows of legal_entities
EntityKeys(st) == existing_names_of(st["legal_entities"])

\* C30: after live run A, live run B and the rollback of A's batch, every
\* counterparty that a remaining record of batch B names and that had a
\* legal_entities row when the rollback started still has one
C30_RollbackKeepsEntitiesOfLaterRun ==
    RollbackOfFirstDone(3) =>
        \A r \in store["inward_reinsurance"] :
            RowBatch(r) = History[2].batch_id =>
                \A key \in ReferencedKeys(r.data) :
                    key \in EntityKeys(store0) => key \in EntityKeys(store)

\* the dedup key of a row of legal_entities
RowKey(row) == normalize_name(row.data.fullName)

\* C28: when two live runs interleave their steps, the store never holds two
\* legal_entities rows with the same dedup key
C28_NoTwoRowsWithOneDedupKey ==
    \A r1 \in store["legal_entities"], r2 \in store["legal_entities"] :
        r1 # r2 => RowKey(r1) # RowKey(r2)

====
